---- MODULE Spec2Model ----
(***************************************************************************)
(* The connection engine of mikrotik-rs (src/mikrotik-rs/src/actor.rs) and *)
(* its public handle (src/mikrotik-rs/src/device.rs) as a state machine.   *)
(*                                                                         *)
(* One worker task owns the socket and the pending table                   *)
(* (running_commands).  Callers submit ReadActorMessage values through a   *)
(* bounded channel and read the responses from a bounded channel of their  *)
(* own (the "sink").  The router is the environment: it puts sentences on  *)
(* the socket, closes it, or the socket fails.                             *)
(*                                                                         *)
(* A sentence is modelled by what CommandResponse::try_from makes of it:   *)
(* <<category, tag, n>> where category is Done, Empty, Reply, Trap, Fatal  *)
(* or Bad (a sentence that fails to parse), tag is the tag it carries (0:  *)
(* none) and n is its position in the router's transcript, which stands    *)
(* for its payload and tells two sentences of a kind apart.                *)
(*                                                                         *)
(* A worker step is the code between two suspension points of the worker   *)
(* that other tasks can observe: one arm of the select!, or one call of    *)
(* process_packet in the loop over the packets of a read.  A send to a     *)
(* full sink whose receiver is alive suspends the worker: the step that    *)
(* makes the send is not enabled until the send can complete.              *)
(*                                                                         *)
(* Init is the state in which connect() has returned a handle; InitLogin   *)
(* is the state before login() has sent its command.  The length prefix    *)
(* of the words (protocol/command.rs write_len, protocol/sentence.rs       *)
(* read_length) is modelled as a pair of operators over byte sequences.    *)
(***************************************************************************)
EXTENDS Integers, Sequences, FiniteSets, TLC

\* ---------------------------------------------------------------- bounds
\* Tags in use (u16 in the code).
MaxTag == 2
\* send_command calls made over a connection.
MaxCmds == 2
\* Sentences the router sends over a connection, the login's !done included.
MaxWire == 3
\* The same, on the fault-free connection of SpecMux.
MaxWireMux == 6
\* The same, on the single streaming command of SpecStream.
MaxWireStream == 7
\* Sentences at the socket that the worker has not read yet.
MaxInFlight == 2
\* The same, on the slow consumer's connection of SpecSlow.
MaxWireSlow == 19
\* The lengths 0..LenSmall are encoded and decoded.
LenSmall == 300
\* And the lengths within LenNear of a change of the prefix width.
LenNear == 2
\* Sentences the router sends over a connection that starts before login.
MaxWireLogin == 3
\* Bytes of the byte strings a Sentence is made over.
MaxPrefix == 3
\* Words of the sentences a Sentence is made over.
MaxWords == 2
\* Calls of next() on one Sentence.
MaxNext == 3
\* Words after the category word of a response sentence.
MaxAttrs == 3
\* Words of a sentence of the byte stream that is split into packets.
MaxSplitWords == 2
\* Sentences of that stream.
MaxSentences == 2
\* Bytes one read takes of it, when it does not take all there is.
MaxChunk == 3
\* Attribute and query calls on one builder.
MaxCalls == 2
\* Turns of the scan for a tag word that process_packet makes.
MaxScan == 4

\* ------------------------------------------------------- program constants
\* mpsc::channel::<ReadActorMessage>(16)
SubmitCapacity == 16
\* mpsc::channel::<DeviceResult<CommandResponse>>(16)
SinkCapacity == 16
\* mpsc::channel(1) of login
LoginSinkCapacity == 1

Tags == 1..MaxTag
LoginSink == 0
Sinks == 0..MaxCmds
LoginTag == 1

\* io::ErrorKind values an IO call of the worker can fail with.
IoKinds == {"BrokenPipe", "ConnectionReset"}

\* Categories the parser tells apart, "Bad" being a ProtocolError.
TaggedCats == {"Done", "Empty", "Reply", "Trap"}
AllCats == TaggedCats \cup {"Fatal", "Bad"}

\* The tags a sentence of a category can carry (0: no tag word).
TagsOf(cat) ==
    CASE cat = "Fatal" -> {0}
      [] cat = "Bad" -> Tags \cup {0}
      [] OTHER -> Tags

VARIABLES
    client,            \* the caller side: "login_send", "connecting" (login()
                       \* awaits its sink), "ready" (a handle exists), "dropped",
                       \* "sending" (inside send_command, at self.0.send(msg).await)
    connect_ret,       \* what connect() returned: <<"Pending">>, <<"Ok">>, or an error
    next_sink,         \* the next send_command call's sink
    cmd_tag,           \* sink -> the tag of the command it was made for (0: none)
    rx,                \* sink -> its receive end: "none", "alive", "dropped", "rejected"
    delivered,         \* sink -> every value sent into it, in order
    submit_q,          \* the submit channel (command_tx)
    running_commands,  \* the pending table: tag -> sink
    packet_buf,        \* complete packets read and not yet processed
    pc,                \* the worker: "select", "drain", "done"
    shutdown,          \* the worker's shutdown flag
    why,               \* what set the shutdown flag first
    wire,              \* sentences at the socket, not yet read
    sent,              \* sentences the router has sent
    sock_rx,           \* the read half: "open", "eof", or an IO error kind
    sock_tx,           \* the write half: "ok", the IO error kind writes fail
                       \* with, or "shutdown" after tcp_tx.shutdown()
    written,           \* every write_all of the worker: <<what, tag, succeeded>>
    taken,             \* sink -> the number of values its receiver has taken
    len,               \* CommandBuffer::write_len: its argument, a u32 as <<hi, lo>>
    cmd_buf,           \* CommandBuffer: the bytes written into it
    ret,               \* what the function that was called returned
    data,              \* Sentence.data: the bytes of one packet
    position,          \* Sentence.position, a usize as <<hi, lo>>
    words,             \* what each next() of the Sentence returned, in order
    stream,            \* the sentences the router sends, each as its bytes
    nread,             \* how many bytes of them read_buf has read
    packet_bytes,      \* packet_buf as the Vec<u8> it is
    packets,           \* the packets handed to process_packet, in order
    command_channel_open, \* the flag of that name of src/src/actor.rs, the
                       \* earlier revision of the worker
    btag,              \* CommandBuilder.tag
    bstate,            \* the builder: "NoCmd", "Cmd", "Built", "Err", "Panic"
    calls              \* the calls made on the builder, in order

\* The Sentence iterator.
sentence == <<data, position, words>>

\* The variables of the byte-level codec, which the engine leaves alone.
\* The splitting of the bytes read into packets.
splitter == <<stream, nread, packet_bytes, packets>>

\* The CommandBuilder, with cmd_buf.
builder == <<btag, bstate, calls>>

codec == <<len, cmd_buf, ret, sentence, splitter, builder>>

\* The variables of the engine, which the byte-level codec leaves alone.
engine == <<client, connect_ret, next_sink, cmd_tag, rx, delivered, submit_q,
            running_commands, packet_buf, pc, shutdown, why, wire, sent,
            sock_rx, sock_tx, written, taken, command_channel_open>>

vars == <<client, connect_ret, next_sink, cmd_tag, rx, delivered, submit_q,
          running_commands, packet_buf, pc, shutdown, why, wire, sent,
          sock_rx, sock_tx, written, taken, command_channel_open, codec>>

\* ------------------------------------------------------------- HashMap
EmptyMap == [t \in {} |-> 0]

\* HashMap::remove
Remove(tbl, tag) == [t \in (DOMAIN tbl) \ {tag} |-> tbl[t]]

\* A faulty variant: an entry already in the table is kept.
InsertIfAbsent(tbl, tag, s) ==
    [t \in (DOMAIN tbl) \cup {tag} |-> IF t \in DOMAIN tbl THEN tbl[t] ELSE s]

\* HashMap::insert: the newer value replaces the older one.
Insert(tbl, tag, s) ==
    [t \in (DOMAIN tbl) \cup {tag} |-> IF t = tag THEN s ELSE tbl[t]]

\* HashMap::drain: the values taken out.
Drained(tbl) == {tbl[t] : t \in DOMAIN tbl}

\* A faulty variant: the lookup ignores the key.
SinkOfAnyTag(tbl, tag) == CHOOSE s \in Drained(tbl) : TRUE

\* HashMap::get, and the value HashMap::remove returns.
SinkOf(tbl, tag) == tbl[tag]

\* ------------------------------------------------------------- channels
Capacity(s) == IF s = LoginSink THEN LoginSinkCapacity ELSE SinkCapacity

\* The values a sink holds: sent into it and not yet taken.
Undelivered(s) == Len(delivered[s]) - taken[s]

\* A faulty variant: a sink takes any number of values.
SendNeverWaits(s) == TRUE

\* Sender::send resolves: there is room, or the receiver is gone.
SendReady(s) == rx[s] # "alive" \/ Undelivered(s) < Capacity(s)

\* Sender::send returns Ok: the receiver is alive.
SendOk(s) == rx[s] = "alive"

\* The sending ends of a sink: inside a queued message, or in the table.
SenderAlive(s) ==
    \/ \E i \in 1..Len(submit_q) : submit_q[i].respond_to = s
    \/ s \in Drained(running_commands)

\* ------------------------------------------------------------- values
\* Ok(CommandResponse::...) of a parsed sentence: the response as parsed.
OkResponse(pkt) == pkt

\* Err(DeviceError::Connection(kind))
Connection(kind) == <<"ErrConnection", kind, 0>>

\* Err(DeviceError::from(protocol_error))
ProtocolErr(pkt) == <<"ErrProtocol", pkt[2], pkt[3]>>

\* `delivered` after sender.send(v) on each sink of `targets`: a send to a
\* dropped receiver fails and leaves nothing.
AfterSend(targets, v) ==
    [s \in DOMAIN delivered |-> IF s \in targets /\ SendOk(s)
                                THEN Append(delivered[s], v) ELSE delivered[s]]

Send(targets, v) ==
    /\ \A s \in targets : SendReady(s)
    /\ delivered' = AfterSend(targets, v)

\* shutdown = true
SetShutdown(cause) ==
    /\ shutdown' = TRUE
    /\ why' = IF why = "none" THEN cause ELSE why

\* tcp_tx.write_all(data): logged with its outcome.
WriteAll(what, tag) ==
    written' = Append(written, <<what, tag, sock_tx = "ok">>)

\* ---------------------------------------------------------------- Init
\* The state in which connect() has returned a handle: the login command was
\* written, its !done was routed to the login sink, and login() has dropped
\* the receive end of that sink.
Connected ==
    /\ client = "ready"
    /\ next_sink = 1
    /\ cmd_tag = [s \in Sinks |-> IF s = LoginSink THEN LoginTag ELSE 0]
    /\ rx = [s \in Sinks |-> IF s = LoginSink THEN "dropped" ELSE "none"]
    /\ delivered = [s \in Sinks |->
                      IF s = LoginSink THEN << <<"Done", LoginTag, 1>> >> ELSE <<>>]
    /\ submit_q = <<>>
    /\ running_commands = EmptyMap
    /\ packet_buf = <<>>
    /\ pc = "select"
    /\ shutdown = FALSE
    /\ why = "none"
    /\ wire = <<>>
    /\ sent = 1
    /\ sock_rx = "open"
    /\ sock_tx = "ok"
    /\ written = << <<"login", LoginTag, TRUE>> >>
    /\ connect_ret = <<"Ok">>
    /\ taken = [s \in Sinks |-> IF s = LoginSink THEN 1 ELSE 0]
    /\ command_channel_open = TRUE

\* No length is being encoded.
SentenceIdle == data = <<>> /\ position = <<0, 0>> /\ words = <<>>

SplitterIdle ==
    stream = <<>> /\ nread = 0 /\ packet_bytes = <<>> /\ packets = <<>>

BuilderIdle == btag = 0 /\ bstate = "NoCmd" /\ calls = <<>>

CodecIdle ==
    /\ len = <<0, 0>> /\ cmd_buf = <<>> /\ ret = <<>>
    /\ SentenceIdle
    /\ SplitterIdle
    /\ BuilderIdle

Init == Connected /\ CodecIdle

\* ------------------------------------------------------- notify_error
\* A faulty variant: the loop over the drained entries stops after the first one.
notify_first(error) ==
    /\ Send(IF running_commands = EmptyMap THEN {}
            ELSE {CHOOSE s \in Drained(running_commands) : TRUE}, error)
    /\ running_commands' = EmptyMap

\* notify_error: drain the table, send the error to every sink.
notify_error(error) ==
    /\ Send(Drained(running_commands), error)
    /\ running_commands' = EmptyMap

\* ------------------------------------------------------ process_packet
\* The Done, Empty and Trap arms: remove the entry, send, drop the sender.
\* A faulty variant: the sink is sent the value and its entry stays.
SendAndKeep(tag, v) ==
    /\ IF tag \in DOMAIN running_commands
       THEN Send({SinkOf(running_commands, tag)}, v)
       ELSE UNCHANGED delivered
    /\ UNCHANGED running_commands

RemoveAndSend(tag, v) ==
    IF tag \in DOMAIN running_commands
    THEN /\ Send({SinkOf(running_commands, tag)}, v)
         /\ running_commands' = Remove(running_commands, tag)
    ELSE UNCHANGED <<running_commands, delivered>>

RouteDone(pkt) ==
    /\ RemoveAndSend(pkt[2], OkResponse(pkt))
    /\ UNCHANGED <<written, shutdown, why>>

\* A faulty variant: an !empty sentence is ignored.
RouteEmptyIgnored(pkt) ==
    UNCHANGED <<running_commands, delivered, written, shutdown, why>>

RouteEmpty(pkt) ==
    /\ RemoveAndSend(pkt[2], OkResponse(pkt))
    /\ UNCHANGED <<written, shutdown, why>>

\* A faulty variant: the Trap arm keeps the entry, as the Reply arm does.
RouteTrapKeep(pkt) ==
    /\ IF pkt[2] \in DOMAIN running_commands
       THEN Send({SinkOf(running_commands, pkt[2])}, OkResponse(pkt))
       ELSE UNCHANGED delivered
    /\ UNCHANGED <<running_commands, written, shutdown, why>>

RouteTrap(pkt) ==
    /\ RemoveAndSend(pkt[2], OkResponse(pkt))
    /\ UNCHANGED <<written, shutdown, why>>

\* A faulty variant: a Reply that cannot be delivered removes the entry and writes
\* nothing.
RouteReplyNoCancel(pkt) ==
    LET tag == pkt[2] IN
    IF tag \in DOMAIN running_commands
    THEN /\ Send({SinkOf(running_commands, tag)}, OkResponse(pkt))
         /\ IF SendOk(SinkOf(running_commands, tag))
            THEN UNCHANGED running_commands
            ELSE running_commands' = Remove(running_commands, tag)
         /\ UNCHANGED <<written, shutdown, why>>
    ELSE UNCHANGED <<running_commands, delivered, written, shutdown, why>>

\* A faulty variant: a Reply that cannot be delivered writes /cancel and keeps the
\* entry.
RouteReplyKeepEntry(pkt) ==
    LET tag == pkt[2] IN
    IF tag \in DOMAIN running_commands
    THEN /\ Send({SinkOf(running_commands, tag)}, OkResponse(pkt))
         /\ UNCHANGED running_commands
         /\ IF SendOk(SinkOf(running_commands, tag))
            THEN UNCHANGED <<written, shutdown, why>>
            ELSE /\ WriteAll("cancel", tag)
                 /\ IF sock_tx = "ok"
                    THEN UNCHANGED <<shutdown, why>>
                    ELSE SetShutdown("cancel_err")
    ELSE UNCHANGED <<running_commands, delivered, written, shutdown, why>>

\* A faulty variant: a Reply whose tag is not in the table is answered with
\* /cancel as well.
RouteReplyCancelUnknown(pkt) ==
    LET tag == pkt[2] IN
    IF tag \in DOMAIN running_commands
    THEN /\ Send({SinkOf(running_commands, tag)}, OkResponse(pkt))
         /\ IF SendOk(SinkOf(running_commands, tag))
            THEN UNCHANGED <<running_commands, written, shutdown, why>>
            ELSE /\ running_commands' = Remove(running_commands, tag)
                 /\ WriteAll("cancel", tag)
                 /\ IF sock_tx = "ok"
                    THEN UNCHANGED <<shutdown, why>>
                    ELSE SetShutdown("cancel_err")
    ELSE /\ WriteAll("cancel", tag)
         /\ UNCHANGED <<running_commands, delivered, shutdown, why>>

\* The Reply arm: the entry stays; a failed send removes it and writes
\* /cancel; a failed /cancel write sets the shutdown flag and nothing else.
RouteReply(pkt) ==
    LET tag == pkt[2] IN
    IF tag \in DOMAIN running_commands
    THEN /\ Send({SinkOf(running_commands, tag)}, OkResponse(pkt))
         /\ IF SendOk(SinkOf(running_commands, tag))
            THEN UNCHANGED <<running_commands, written, shutdown, why>>
            ELSE /\ running_commands' = Remove(running_commands, tag)
                 /\ WriteAll("cancel", tag)
                 /\ IF sock_tx = "ok"
                    THEN UNCHANGED <<shutdown, why>>
                    ELSE SetShutdown("cancel_err")
    ELSE UNCHANGED <<running_commands, delivered, written, shutdown, why>>

\* A faulty variant: the Fatal arm leaves the shutdown flag alone.
RouteFatalNoShutdown(pkt) ==
    /\ Send(Drained(running_commands), OkResponse(pkt))
    /\ running_commands' = EmptyMap
    /\ UNCHANGED <<written, shutdown, why>>

\* The Fatal arm: drain the table, send Fatal to every sink, shut down.
RouteFatal(pkt) ==
    /\ Send(Drained(running_commands), OkResponse(pkt))
    /\ running_commands' = EmptyMap
    /\ SetShutdown("fatal")
    /\ UNCHANGED written

\* A faulty variant: a parse error is sent to every sink, tagged or not.
RouteBadToAll(pkt) ==
    /\ notify_error(ProtocolErr(pkt))
    /\ UNCHANGED <<written, shutdown, why>>

\* The Err(protocol_error) arm: to the tag's sink when a tag word is found,
\* else to every sink.
RouteBad(pkt) ==
    /\ IF pkt[2] # 0
       THEN RemoveAndSend(pkt[2], ProtocolErr(pkt))
       ELSE notify_error(ProtocolErr(pkt))
    /\ UNCHANGED <<written, shutdown, why>>

process_packet(pkt) ==
    CASE pkt[1] = "Done" -> RouteDone(pkt)
      [] pkt[1] = "Empty" -> RouteEmpty(pkt)
      [] pkt[1] = "Reply" -> RouteReply(pkt)
      [] pkt[1] = "Trap" -> RouteTrap(pkt)
      [] pkt[1] = "Fatal" -> RouteFatal(pkt)
      [] OTHER -> RouteBad(pkt)

\* ------------------------------------------------------------- worker
\* A faulty variant: the select! never finds the read ready before the submit
\* channel.
ReadNotPreferred == FALSE

\* The socket read of the select! is ready.
ReadReady == wire # <<>> \/ sock_rx # "open"

\* read_buf returned Ok(n), n > 0: some of the sentences at the socket.
WorkerRead ==
    /\ pc = "select" /\ ~shutdown
    /\ sock_rx \in {"open", "eof"}
    /\ wire # <<>>
    /\ \E k \in 1..Len(wire) :
         /\ packet_buf' = SubSeq(wire, 1, k)
         /\ wire' = SubSeq(wire, k + 1, Len(wire))
    /\ pc' = "drain"
    /\ UNCHANGED <<connect_ret, taken, codec, command_channel_open, client, next_sink, cmd_tag, rx,
                   delivered, submit_q,
                   running_commands, shutdown, why, sent, sock_rx, sock_tx,
                   written>>

\* A faulty variant: the packet routed is the last one of the buffer.
LastPacket(buf) == buf[Len(buf)]

\* packet_buf.drain(..=null_idx): the first packet of the buffer.
FirstPacket(buf) == Head(buf)

\* One turn of the loop over the packets of the buffer.
ProcessPacket ==
    /\ pc = "drain"
    /\ process_packet(FirstPacket(packet_buf))
    /\ packet_buf' = Tail(packet_buf)
    /\ pc' = IF Tail(packet_buf) = <<>> THEN "select" ELSE "drain"
    /\ UNCHANGED <<connect_ret, taken, codec, command_channel_open, client, next_sink, cmd_tag, rx,
                   submit_q, wire, sent,
                   sock_rx, sock_tx>>

\* read_buf returned Ok(0): the device closed the connection.
ReadEof ==
    /\ pc = "select" /\ ~shutdown
    /\ sock_rx = "eof" /\ wire = <<>>
    /\ notify_error(Connection("ConnectionAborted"))
    /\ SetShutdown("eof")
    /\ UNCHANGED <<connect_ret, taken, codec, command_channel_open, client, next_sink, cmd_tag, rx,
                   submit_q, packet_buf, pc,
                   wire, sent, sock_rx, sock_tx, written>>

\* read_buf returned Err(e).
ReadErr ==
    /\ pc = "select" /\ ~shutdown
    /\ sock_rx \in IoKinds
    /\ notify_error(Connection(sock_rx))
    /\ SetShutdown("read_err")
    /\ UNCHANGED <<connect_ret, taken, codec, command_channel_open, client, next_sink, cmd_tag, rx,
                   submit_q, packet_buf, pc,
                   wire, sent, sock_rx, sock_tx, written>>

\* command_tx_recv.recv() returned Some(message): write it, then register it.
WorkerSubmit ==
    /\ pc = "select" /\ ~shutdown
    /\ ~ReadReady
    /\ submit_q # <<>>
    /\ LET msg == Head(submit_q) IN
       /\ WriteAll(msg.data, msg.tag)
       /\ IF sock_tx = "ok"
          THEN /\ running_commands' = Insert(running_commands, msg.tag, msg.respond_to)
               /\ UNCHANGED <<delivered, shutdown, why>>
          ELSE /\ notify_error(Connection(sock_tx))
               /\ SetShutdown("write_err")
    /\ submit_q' = Tail(submit_q)
    /\ UNCHANGED <<connect_ret, taken, codec, command_channel_open, client, next_sink, cmd_tag, rx,
                   packet_buf, pc, wire, sent,
                   sock_rx, sock_tx>>

\* A faulty variant: the closed channel sets the flag and cancels nothing.
ChannelClosedNoCancel ==
    /\ pc = "select" /\ ~shutdown
    /\ ~ReadReady
    /\ submit_q = <<>> /\ client = "dropped"
    /\ running_commands' = EmptyMap
    /\ SetShutdown("closed")
    /\ UNCHANGED <<connect_ret, taken, codec, command_channel_open, client, next_sink, cmd_tag, rx,
                   delivered, submit_q, packet_buf, pc, wire, sent, sock_rx,
                   sock_tx, written>>

\* command_tx_recv.recv() returned None: every handle is gone.  /cancel is
\* written for every tag of the table, in the table's iteration order.
WorkerChannelClosed ==
    /\ pc = "select" /\ ~shutdown
    /\ ~ReadReady
    /\ submit_q = <<>> /\ client = "dropped"
    /\ \E order \in [1..Cardinality(DOMAIN running_commands) -> DOMAIN running_commands] :
         /\ \A i, j \in DOMAIN order : order[i] = order[j] => i = j
         /\ written' = written \o [i \in DOMAIN order |->
                                     <<"cancel", order[i], sock_tx = "ok">>]
    /\ running_commands' = EmptyMap
    /\ SetShutdown("closed")
    /\ UNCHANGED <<connect_ret, taken, codec, command_channel_open, client, next_sink, cmd_tag, rx,
                   delivered, submit_q,
                   packet_buf, pc, wire, sent, sock_rx, sock_tx>>

\* The loop ends: tcp_tx.shutdown(), and the task's values are dropped (the
\* table, the receive end of the submit channel with the messages in it).
WorkerExit ==
    /\ pc = "select" /\ shutdown
    /\ pc' = "done"
    /\ sock_tx' = "shutdown"
    /\ running_commands' = EmptyMap
    /\ submit_q' = <<>>
    /\ packet_buf' = <<>>
    /\ UNCHANGED <<connect_ret, taken, codec, command_channel_open, client, next_sink, cmd_tag, rx,
                   delivered, shutdown, why, wire, sent, sock_rx, written>>

\* ------------------------------------------------------------- callers
\* A faulty variant: send_command queues its message whether or not the worker
\* is there to take it.
SendCommandsAnyway(tags) ==
    /\ client = "ready"
    /\ next_sink <= MaxCmds
    /\ \E t \in tags :
         /\ Len(submit_q) < SubmitCapacity
         /\ submit_q' = Append(submit_q,
                [tag |-> t, data |-> "cmd", respond_to |-> next_sink])
         /\ rx' = [rx EXCEPT ![next_sink] = "alive"]
         /\ cmd_tag' = [cmd_tag EXCEPT ![next_sink] = t]
    /\ next_sink' = next_sink + 1
    /\ UNCHANGED <<connect_ret, taken, codec, command_channel_open, client, delivered,
                   running_commands, packet_buf, pc,
                   shutdown, why, wire, sent, sock_rx, sock_tx, written>>

\* MikrotikDevice::send_command: a fresh sink, the message into the submit
\* channel; an error when the worker is gone.
SendCommands(tags) ==
    /\ client = "ready"
    /\ next_sink <= MaxCmds
    /\ \E t \in tags :
         IF pc = "done"
         THEN /\ rx' = [rx EXCEPT ![next_sink] = "rejected"]
              /\ cmd_tag' = [cmd_tag EXCEPT ![next_sink] = t]
              /\ UNCHANGED submit_q
         ELSE /\ Len(submit_q) < SubmitCapacity
              /\ submit_q' = Append(submit_q,
                     [tag |-> t, data |-> "cmd", respond_to |-> next_sink])
              /\ rx' = [rx EXCEPT ![next_sink] = "alive"]
              /\ cmd_tag' = [cmd_tag EXCEPT ![next_sink] = t]
    /\ next_sink' = next_sink + 1
    /\ UNCHANGED <<connect_ret, taken, codec, command_channel_open, client, delivered,
                   running_commands, packet_buf, pc,
                   shutdown, why, wire, sent, sock_rx, sock_tx, written>>

SendCommand == SendCommands(Tags)

\* The caller drops its stream.
DropReceiver ==
    /\ \E s \in Sinks :
         /\ rx[s] = "alive"
         /\ rx' = [rx EXCEPT ![s] = "dropped"]
    /\ UNCHANGED <<connect_ret, taken, codec, command_channel_open, client, next_sink, cmd_tag,
                   delivered, submit_q,
                   running_commands, packet_buf, pc, shutdown, why, wire, sent,
                   sock_rx, sock_tx, written>>

\* The last handle is dropped.
DropHandle ==
    /\ client = "ready"
    /\ client' = "dropped"
    /\ UNCHANGED <<connect_ret, taken, codec, command_channel_open, next_sink, cmd_tag, rx,
                   delivered, submit_q,
                   running_commands, packet_buf, pc, shutdown, why, wire, sent,
                   sock_rx, sock_tx, written>>

\* ---------------------------------------------------------- environment
\* The environment acts on the socket while the worker holds it.
\* The router sends one sentence of a category of `cats` with a tag of `tags`.
RouterSends(cats, tags, max) ==
    /\ sent < max /\ Len(wire) < MaxInFlight
    /\ pc # "done" /\ sock_rx = "open"
    /\ \E c \in cats : \E t \in TagsOf(c) \cap (tags \cup {0}) :
         wire' = Append(wire, <<c, t, sent + 1>>)
    /\ sent' = sent + 1
    /\ UNCHANGED <<connect_ret, taken, codec, command_channel_open, client, next_sink, cmd_tag, rx,
                   delivered, submit_q,
                   running_commands, packet_buf, pc, shutdown, why, sock_rx,
                   sock_tx, written>>

RouterSend == RouterSends(AllCats, Tags, MaxWire)

\* The router closes the connection.
PeerClose ==
    /\ pc # "done" /\ sock_rx = "open"
    /\ sock_rx' = "eof"
    /\ UNCHANGED <<connect_ret, taken, codec, command_channel_open, client, next_sink, cmd_tag, rx,
                   delivered, submit_q,
                   running_commands, packet_buf, pc, shutdown, why, wire, sent,
                   sock_tx, written>>

\* Reads start to fail.
RxFail ==
    /\ pc # "done" /\ sock_rx \in {"open", "eof"}
    /\ \E k \in IoKinds : sock_rx' = k
    /\ UNCHANGED <<connect_ret, taken, codec, command_channel_open, client, next_sink, cmd_tag, rx,
                   delivered, submit_q,
                   running_commands, packet_buf, pc, shutdown, why, wire, sent,
                   sock_tx, written>>

\* Writes start to fail.
TxFail ==
    /\ pc # "done" /\ sock_tx = "ok"
    /\ \E k \in IoKinds : sock_tx' = k
    /\ UNCHANGED <<connect_ret, taken, codec, command_channel_open, client, next_sink, cmd_tag, rx,
                   delivered, submit_q,
                   running_commands, packet_buf, pc, shutdown, why, wire, sent,
                   sock_rx, written>>

Worker ==
    \/ WorkerRead
    \/ ProcessPacket
    \/ ReadEof
    \/ ReadErr
    \/ WorkerSubmit
    \/ WorkerChannelClosed
    \/ WorkerExit

Next ==
    \/ Worker
    \/ SendCommand
    \/ DropReceiver
    \/ DropHandle
    \/ RouterSend
    \/ PeerClose
    \/ RxFail
    \/ TxFail

Spec == Init /\ [][Next]_vars

\* A connection without faults: the router sends well-formed !re, !done and
\* !trap sentences only, no IO call fails and the handle is kept.
RouterSendMux == RouterSends({"Reply", "Done", "Trap"}, Tags, MaxWireMux)

NextMux ==
    \/ WorkerRead
    \/ ProcessPacket
    \/ WorkerSubmit
    \/ SendCommand
    \/ DropReceiver
    \/ RouterSendMux

SpecMux == Init /\ [][NextMux]_vars

\* A connection without faults on which every command carries the same tag
\* (a streaming command such as monitor-traffic, and commands that reuse its
\* tag).  The worker is scheduled fairly; the router and the callers are not.
StreamTag == MaxTag

RouterSendStream == RouterSends({"Reply", "Done", "Trap"}, {StreamTag}, MaxWireStream)

SendCommandStream == SendCommands({StreamTag})

NextStream ==
    \/ WorkerRead
    \/ ProcessPacket
    \/ WorkerSubmit
    \/ SendCommandStream
    \/ DropReceiver
    \/ RouterSendStream

SpecStream ==
    /\ Init
    /\ [][NextStream]_vars
    /\ WF_vars(WorkerRead)
    /\ WF_vars(ProcessPacket)
    /\ WF_vars(WorkerSubmit)

\* -------------------------------------------------------- slow consumer
\* The caller takes a value from one of its streams.
Recv ==
    /\ \E s \in Sinks \ {LoginSink} :
         /\ rx[s] = "alive"
         /\ Undelivered(s) > 0
         /\ taken' = [taken EXCEPT ![s] = @ + 1]
    /\ UNCHANGED <<connect_ret, codec, command_channel_open, client, next_sink, cmd_tag, rx,
                   delivered, submit_q, running_commands, packet_buf, pc,
                   shutdown, why, wire, sent, sock_rx, sock_tx, written>>

\* The router answers the streaming command, once it has got it, with a
\* stream of Replies, enough of them to fill its sink and one more, and then
\* sends the Done of any tag.
RouterSendSlow ==
    \/ /\ sent < SinkCapacity + 2
       /\ \E i \in 1..Len(written) : written[i] = <<"cmd", StreamTag, TRUE>>
       /\ RouterSends({"Reply"}, {StreamTag}, MaxWireSlow)
    \/ /\ sent >= SinkCapacity + 2
       /\ RouterSends({"Done"}, Tags, MaxWireSlow)

\* A connection without faults with a streaming command whose caller takes
\* the values when it pleases.
NextSlow ==
    \/ WorkerRead
    \/ ProcessPacket
    \/ WorkerSubmit
    \/ SendCommand
    \/ Recv
    \/ DropReceiver
    \/ RouterSendSlow

SpecSlow == Init /\ [][NextSlow]_vars

\* ------------------------------------------------------ one caller task
\* One task owns the handle and every stream: it calls send_command and
\* takes values from its streams in turn, one await at a time.  Its first
\* command is the streaming one; the others carry another tag.
TaskCmds == SubmitCapacity + 2

TaskSinks == 0..TaskCmds

InitTask ==
    /\ client = "ready"
    /\ next_sink = 1
    /\ cmd_tag = [s \in TaskSinks |-> IF s = LoginSink THEN LoginTag ELSE 0]
    /\ rx = [s \in TaskSinks |-> IF s = LoginSink THEN "dropped" ELSE "none"]
    /\ delivered = [s \in TaskSinks |->
                      IF s = LoginSink THEN << <<"Done", LoginTag, 1>> >> ELSE <<>>]
    /\ submit_q = <<>>
    /\ running_commands = EmptyMap
    /\ packet_buf = <<>>
    /\ pc = "select"
    /\ shutdown = FALSE
    /\ why = "none"
    /\ wire = <<>>
    /\ sent = 1
    /\ sock_rx = "open"
    /\ sock_tx = "ok"
    /\ written = << <<"login", LoginTag, TRUE>> >>
    /\ connect_ret = <<"Ok">>
    /\ taken = [s \in TaskSinks |-> IF s = LoginSink THEN 1 ELSE 0]
    /\ command_channel_open = TRUE
    /\ CodecIdle

\* send_command is called: the sink is made and the message built; the task
\* is at self.0.send(msg).await.
TaskCall ==
    /\ client = "ready"
    /\ next_sink <= TaskCmds
    /\ client' = "sending"
    /\ cmd_tag' = [cmd_tag EXCEPT ![next_sink] =
                      IF next_sink = 1 THEN StreamTag ELSE LoginTag]
    /\ UNCHANGED <<connect_ret, taken, codec, command_channel_open, next_sink, rx,
                   delivered, submit_q, running_commands, packet_buf, pc,
                   shutdown, why, wire, sent, sock_rx, sock_tx, written>>

\* self.0.send(msg).await resolves once the submit channel has room, and
\* send_command returns the stream.
TaskSend ==
    /\ client = "sending"
    /\ Len(submit_q) < SubmitCapacity
    /\ submit_q' = Append(submit_q,
           [tag |-> cmd_tag[next_sink], data |-> "cmd", respond_to |-> next_sink])
    /\ rx' = [rx EXCEPT ![next_sink] = "alive"]
    /\ next_sink' = next_sink + 1
    /\ client' = "ready"
    /\ UNCHANGED <<connect_ret, taken, codec, command_channel_open, cmd_tag,
                   delivered, running_commands, packet_buf, pc,
                   shutdown, why, wire, sent, sock_rx, sock_tx, written>>

\* The task takes a value from one of its streams, between two calls.
TaskRecv == client = "ready" /\ Recv

\* The router answers the streaming command with Replies, enough of them to
\* fill its sink and one more.
RouterSendTask ==
    /\ \E i \in 1..Len(written) : written[i] = <<"cmd", StreamTag, TRUE>>
    /\ RouterSends({"Reply"}, {StreamTag}, SinkCapacity + 2)

NextTask ==
    \/ WorkerRead
    \/ ProcessPacket
    \/ WorkerSubmit
    \/ TaskCall
    \/ TaskSend
    \/ TaskRecv
    \/ RouterSendTask

SpecTask == InitTask /\ [][NextTask]_vars

\* ---------------------------------------------------------------- login
\* The state in which start() has spawned the worker and login() has made
\* its private channel: nothing is written, nothing is queued.
InitLogin ==
    /\ client = "login_send"
    /\ connect_ret = <<"Pending">>
    /\ next_sink = 1
    /\ cmd_tag = [s \in Sinks |-> IF s = LoginSink THEN LoginTag ELSE 0]
    /\ rx = [s \in Sinks |-> IF s = LoginSink THEN "alive" ELSE "none"]
    /\ delivered = [s \in Sinks |-> <<>>]
    /\ submit_q = <<>>
    /\ running_commands = EmptyMap
    /\ packet_buf = <<>>
    /\ pc = "select"
    /\ shutdown = FALSE
    /\ why = "none"
    /\ wire = <<>>
    /\ sent = 0
    /\ sock_rx = "open"
    /\ sock_tx = "ok"
    /\ written = <<>>
    /\ taken = [s \in Sinks |-> 0]
    /\ command_channel_open = TRUE
    /\ CodecIdle

\* DeviceError::Channel { message }
Channel(message) == <<"Channel", message>>

\* A faulty variant: a Trap counts as a successful login.
LoginMatchTrapOk(response) ==
    IF response[1] \in {"Done", "Trap"} THEN <<"Ok">>
    ELSE <<"Err", <<"ResponseSequence", response, <<"Done", "Trap">>>>>>

\* A faulty variant: the ResponseSequence error forgets what was received.
LoginMatchForgets(response) ==
    CASE response[1] = "Done" -> <<"Ok">>
      [] response[1] = "Trap" -> <<"Err", <<"Authentication", response>>>>
      [] OTHER -> <<"Err", <<"ResponseSequence", <<>>, <<"Done", "Trap">>>>>>

\* The match of login() on the response it received.
LoginMatch(response) ==
    CASE response[1] = "Done" -> <<"Ok">>
      [] response[1] = "Trap" -> <<"Err", <<"Authentication", response>>>>
      [] OTHER -> <<"Err", <<"ResponseSequence", response, <<"Done", "Trap">>>>>>

\* What login() makes of recv()'s value: None, Some(Err(e)), Some(Ok(r)).
LoginResult(value) ==
    CASE value = <<>> -> <<"Err", Channel("No login response received")>>
      [] value[1] \in {"ErrConnection", "ErrProtocol"} -> <<"Err", value>>
      [] OTHER -> LoginMatch(value)

\* A faulty variant: connect() hands out a handle whatever login() returned.
ConnectReturnsHandle(result) ==
    /\ connect_ret' = result
    /\ client' = "ready"
    /\ rx' = [rx EXCEPT ![LoginSink] = "dropped"]

\* connect() returns: a handle on Ok, and on Err the only sender of the
\* submit channel is dropped.  login_response_rx is dropped either way.
ConnectReturns(result) ==
    /\ connect_ret' = result
    /\ client' = IF result = <<"Ok">> THEN "ready" ELSE "dropped"
    /\ rx' = [rx EXCEPT ![LoginSink] = "dropped"]

\* command_tx_send.send(ReadActorMessage { .. }).await? of login().
LoginSend ==
    /\ client = "login_send"
    /\ IF pc = "done"
       THEN /\ ConnectReturns(<<"Err", Channel("Failed to send message through channel")>>)
            /\ UNCHANGED submit_q
       ELSE /\ submit_q' = Append(submit_q,
                   [tag |-> LoginTag, data |-> "login", respond_to |-> LoginSink])
            /\ client' = "connecting"
            /\ UNCHANGED <<connect_ret, rx>>
    /\ UNCHANGED <<taken, codec, command_channel_open, next_sink, cmd_tag, delivered,
                   running_commands, packet_buf, pc, shutdown, why, wire, sent,
                   sock_rx, sock_tx, written>>

\* login_response_rx.recv().await of login(), and what follows it.
LoginRecv ==
    /\ client = "connecting"
    /\ IF Undelivered(LoginSink) > 0
       THEN /\ ConnectReturns(LoginResult(delivered[LoginSink][taken[LoginSink] + 1]))
            /\ taken' = [taken EXCEPT ![LoginSink] = @ + 1]
       ELSE /\ ~SenderAlive(LoginSink)
            /\ ConnectReturns(LoginResult(<<>>))
            /\ UNCHANGED taken
    /\ UNCHANGED <<codec, command_channel_open, next_sink, cmd_tag, delivered, submit_q,
                   running_commands, packet_buf, pc, shutdown, why, wire, sent,
                   sock_rx, sock_tx, written>>

RouterSendLogin == RouterSends(AllCats, Tags, MaxWireLogin)

\* A connection from start(): the worker and login() run side by side; the
\* worker and login() are scheduled fairly, the router and the callers are
\* not.
NextLogin ==
    \/ Worker
    \/ LoginSend
    \/ LoginRecv
    \/ SendCommand
    \/ RouterSendLogin
    \/ PeerClose
    \/ RxFail
    \/ TxFail

SpecLogin ==
    /\ InitLogin
    /\ [][NextLogin]_vars
    /\ WF_vars(Worker)
    /\ WF_vars(LoginSend)
    /\ WF_vars(LoginRecv)

\* ------------------------------------------- the worker of src/src/actor.rs
\* The earlier revision of the worker: its select! prefers the submit
\* channel, a closed submit channel clears command_channel_open, and the
\* loop goes on while the flag is set or commands are pending.  Its parser
\* knows !done, !re, !trap and !fatal; any other sentence is a parse error.
LoopCats == {"Done", "Reply", "Trap", "Fatal", "Bad"}

\* Err(Error::from(kind)) of notify_error
IoError(kind) == <<"ErrIo", kind, 0>>

\* while !shutdown && (command_channel_open || running_commands.len() > 0)
LoopGoesOn == ~shutdown /\ (command_channel_open \/ running_commands # EmptyMap)

\* command_tx_recv.recv() is ready: a message is queued, or every sender is
\* gone and recv() returns None.
RecvReady == submit_q # <<>> \/ client = "dropped"

\* The Reply arm: the entry stays, also when the send fails and /cancel is
\* written; a failed /cancel write sets the shutdown flag.
LoopReply(pkt) ==
    LET tag == pkt[2] IN
    IF tag \in DOMAIN running_commands
    THEN /\ Send({SinkOf(running_commands, tag)}, OkResponse(pkt))
         /\ UNCHANGED running_commands
         /\ IF SendOk(SinkOf(running_commands, tag))
            THEN UNCHANGED <<written, shutdown, why>>
            ELSE /\ WriteAll("cancel", tag)
                 /\ IF sock_tx = "ok"
                    THEN UNCHANGED <<shutdown, why>>
                    ELSE SetShutdown("cancel_err")
    ELSE UNCHANGED <<running_commands, delivered, written, shutdown, why>>

\* The Fatal arm: drain the table, send Fatal to every sink.
LoopFatal(pkt) ==
    /\ Send(Drained(running_commands), OkResponse(pkt))
    /\ running_commands' = EmptyMap
    /\ UNCHANGED <<written, shutdown, why>>

\* The Err(e) arm: the error is printed.
LoopBad(pkt) == UNCHANGED <<running_commands, delivered, written, shutdown, why>>

\* The body of the loop over the packets of a read.
LoopRoute(pkt) ==
    CASE pkt[1] = "Done" -> RouteDone(pkt)
      [] pkt[1] = "Reply" -> LoopReply(pkt)
      [] pkt[1] = "Trap" -> RouteTrap(pkt)
      [] pkt[1] = "Fatal" -> LoopFatal(pkt)
      [] OTHER -> LoopBad(pkt)

\* recv() returned Some(message): write it, then register it.
LoopSubmit ==
    /\ pc = "select" /\ LoopGoesOn
    /\ submit_q # <<>>
    /\ LET msg == Head(submit_q) IN
       /\ WriteAll(msg.data, msg.tag)
       /\ IF sock_tx = "ok"
          THEN /\ running_commands' = Insert(running_commands, msg.tag, msg.respond_to)
               /\ UNCHANGED <<delivered, shutdown, why>>
          ELSE /\ notify_error(IoError(sock_tx))
               /\ SetShutdown("write_err")
    /\ submit_q' = Tail(submit_q)
    /\ UNCHANGED <<connect_ret, taken, codec, command_channel_open, client,
                   next_sink, cmd_tag, rx, packet_buf, pc, wire, sent,
                   sock_rx, sock_tx>>

\* recv() returned None: the flag is cleared.  recv() returns None again at
\* every later turn of the loop, before the socket is looked at.
LoopChannelClosed ==
    /\ pc = "select" /\ LoopGoesOn
    /\ submit_q = <<>> /\ client = "dropped"
    /\ command_channel_open' = FALSE
    /\ UNCHANGED <<connect_ret, taken, codec, client, next_sink, cmd_tag, rx,
                   delivered, submit_q, running_commands, packet_buf, pc,
                   shutdown, why, wire, sent, sock_rx, sock_tx, written>>

\* read_buf returned Ok(n), n > 0.
LoopRead ==
    /\ pc = "select" /\ LoopGoesOn
    /\ ~RecvReady
    /\ sock_rx \in {"open", "eof"}
    /\ wire # <<>>
    /\ \E k \in 1..Len(wire) :
         /\ packet_buf' = SubSeq(wire, 1, k)
         /\ wire' = SubSeq(wire, k + 1, Len(wire))
    /\ pc' = "drain"
    /\ UNCHANGED <<connect_ret, taken, codec, command_channel_open, client,
                   next_sink, cmd_tag, rx, delivered, submit_q,
                   running_commands, shutdown, why, sent, sock_rx, sock_tx,
                   written>>

\* One turn of the loop over the packets of the buffer.
LoopPacket ==
    /\ pc = "drain"
    /\ LoopRoute(FirstPacket(packet_buf))
    /\ packet_buf' = Tail(packet_buf)
    /\ pc' = IF Tail(packet_buf) = <<>> THEN "select" ELSE "drain"
    /\ UNCHANGED <<connect_ret, taken, codec, command_channel_open, client,
                   next_sink, cmd_tag, rx, submit_q, wire, sent, sock_rx,
                   sock_tx>>

\* read_buf returned Ok(0): shutdown = true.
LoopEof ==
    /\ pc = "select" /\ LoopGoesOn
    /\ ~RecvReady
    /\ sock_rx = "eof" /\ wire = <<>>
    /\ SetShutdown("eof")
    /\ UNCHANGED <<connect_ret, taken, codec, command_channel_open, client,
                   next_sink, cmd_tag, rx, delivered, submit_q,
                   running_commands, packet_buf, pc, wire, sent, sock_rx,
                   sock_tx, written>>

\* read_buf returned Err(e).
LoopReadErr ==
    /\ pc = "select" /\ LoopGoesOn
    /\ ~RecvReady
    /\ sock_rx \in IoKinds
    /\ notify_error(IoError(sock_rx))
    /\ SetShutdown("read_err")
    /\ UNCHANGED <<connect_ret, taken, codec, command_channel_open, client,
                   next_sink, cmd_tag, rx, submit_q, packet_buf, pc, wire,
                   sent, sock_rx, sock_tx, written>>

\* The loop ends: tcp_tx.shutdown(), and the task's values are dropped.
LoopExit ==
    /\ pc = "select" /\ ~LoopGoesOn
    /\ pc' = "done"
    /\ sock_tx' = "shutdown"
    /\ running_commands' = EmptyMap
    /\ submit_q' = <<>>
    /\ packet_buf' = <<>>
    /\ UNCHANGED <<connect_ret, taken, codec, command_channel_open, client,
                   next_sink, cmd_tag, rx, delivered, shutdown, why, wire,
                   sent, sock_rx, written>>

\* MikrotikDevice::send_command of src/src/device.rs: a fresh sink, the
\* message into the submit channel; expect() panics when the worker is gone.
LoopSendCommand ==
    /\ client = "ready"
    /\ next_sink <= MaxCmds
    /\ \E t \in Tags :
         IF pc = "done"
         THEN /\ rx' = [rx EXCEPT ![next_sink] = "panicked"]
              /\ cmd_tag' = [cmd_tag EXCEPT ![next_sink] = t]
              /\ UNCHANGED submit_q
         ELSE /\ Len(submit_q) < SubmitCapacity
              /\ submit_q' = Append(submit_q,
                     [tag |-> t, data |-> "cmd", respond_to |-> next_sink])
              /\ rx' = [rx EXCEPT ![next_sink] = "alive"]
              /\ cmd_tag' = [cmd_tag EXCEPT ![next_sink] = t]
    /\ next_sink' = next_sink + 1
    /\ UNCHANGED <<connect_ret, taken, codec, command_channel_open, client,
                   delivered, running_commands, packet_buf, pc, shutdown, why,
                   wire, sent, sock_rx, sock_tx, written>>

RouterSendLoop == RouterSends(LoopCats, Tags, MaxWire)

NextLoop ==
    \/ LoopSubmit
    \/ LoopChannelClosed
    \/ LoopRead
    \/ LoopPacket
    \/ LoopEof
    \/ LoopReadErr
    \/ LoopExit
    \/ LoopSendCommand
    \/ DropReceiver
    \/ DropHandle
    \/ RouterSendLoop
    \/ PeerClose
    \/ RxFail
    \/ TxFail

SpecLoop == Init /\ [][NextLoop]_vars

\* --------------------------------------------------------- length codec
\* A u32 is <<hi, lo>>, its two 16-bit halves.
\* a & b and a | b for a, b < 2^16.
RECURSIVE BitAnd(_, _)
BitAnd(a, b) ==
    IF a = 0 \/ b = 0 THEN 0
    ELSE (a % 2) * (b % 2) + 2 * BitAnd(a \div 2, b \div 2)

RECURSIVE BitOr(_, _)
BitOr(a, b) ==
    IF a = 0 THEN b
    ELSE IF b = 0 THEN a
    ELSE (IF a % 2 = 1 \/ b % 2 = 1 THEN 1 ELSE 0)
         + 2 * BitOr(a \div 2, b \div 2)

\* c <<= 8 on a u32
Shl8(c) == <<(c[1] * 256 + c[2] \div 256) % 65536, (c[2] * 256) % 65536>>

\* c += b as u32
AddByte(c, b) ==
    <<(c[1] + (c[2] + b) \div 65536) % 65536, (c[2] + b) % 65536>>

\* A faulty variant: every length gets the five-byte prefix.
write_len_wide(l) ==
    <<240, (l[1] \div 256) % 256, l[1] % 256, (l[2] \div 256) % 256, l[2] % 256>>

\* CommandBuffer::write_len: the bytes it appends for the length l.
write_len(l) ==
    IF l[1] = 0 /\ l[2] <= 127
    THEN <<l[2] % 256>>
    ELSE IF l[1] = 0 /\ l[2] <= 16383
    THEN LET lo == BitOr(l[2], 32768)
         IN  <<(lo \div 256) % 256, lo % 256>>
    ELSE IF l[1] <= 31
    THEN LET hi == BitOr(l[1], 192)
         IN  <<hi % 256, (l[2] \div 256) % 256, l[2] % 256>>
    ELSE IF l[1] <= 4095
    THEN LET hi == BitOr(l[1], 57344)
         IN  <<(hi \div 256) % 256, hi % 256, (l[2] \div 256) % 256, l[2] % 256>>
    ELSE <<240, (l[1] \div 256) % 256, l[1] % 256, (l[2] \div 256) % 256,
           l[2] % 256>>

\* read_length: Ok((length, bytes read)), Err(PrefixLength), or the panic of
\* an index past the end of the data.
read_length(bytes) ==
    LET c == bytes[1]
        Rest(first, n) ==
            IF Len(bytes) < n THEN <<"Panic">>
            ELSE LET c2 == AddByte(Shl8(<<0, first>>), bytes[2])
                     c3 == IF n >= 3 THEN AddByte(Shl8(c2), bytes[3]) ELSE c2
                     c4 == IF n >= 4 THEN AddByte(Shl8(c3), bytes[4]) ELSE c3
                 IN  <<"Ok", c4, n>>
    IN  IF BitAnd(c, 128) = 0 THEN <<"Ok", <<0, c>>, 1>>
        ELSE IF BitAnd(c, 192) = 128 THEN Rest(BitAnd(c, 63), 2)
        ELSE IF BitAnd(c, 224) = 192 THEN Rest(BitAnd(c, 31), 3)
        ELSE IF BitAnd(c, 240) = 224 THEN Rest(BitAnd(c, 15), 4)
        ELSE IF BitAnd(c, 248) = 240
        THEN IF Len(bytes) < 5 THEN <<"Panic">>
             ELSE <<"Ok",
                    AddByte(Shl8(AddByte(Shl8(AddByte(Shl8(<<0, bytes[2]>>),
                        bytes[3])), bytes[4])), bytes[5]),
                    5>>
        ELSE <<"Err", "PrefixLength">>

\* The u32 of a number below 2^31.
U32(n) == <<n \div 65536, n % 65536>>

\* The lengths tried: the small ones, those around each change of width,
\* around 2^31, and the largest ones.
LenSamples ==
    {U32(n) : n \in 0..LenSmall}
    \cup {U32(b + d) : b \in {127, 16383, 2097151, 268435455},
                       d \in (0 - LenNear)..(LenNear + 1)}
    \cup {<<32767, 65535 - d>> : d \in 0..LenNear}
    \cup {<<32768, d>> : d \in 0..LenNear}
    \cup {<<65535, 65535 - d>> : d \in 0..LenNear}

InitLen ==
    /\ Connected
    /\ len \in LenSamples
    /\ cmd_buf = <<>>
    /\ ret = <<>>
    /\ SentenceIdle
    /\ SplitterIdle
    /\ BuilderIdle

\* write_len(len) on an empty CommandBuffer.
WriteLen ==
    /\ cmd_buf = <<>>
    /\ cmd_buf' = write_len(len)
    /\ UNCHANGED <<engine, len, ret, sentence, splitter, builder>>

\* read_length on the bytes of the buffer.
ReadLength ==
    /\ cmd_buf # <<>> /\ ret = <<>>
    /\ ret' = read_length(cmd_buf)
    /\ UNCHANGED <<engine, len, cmd_buf, sentence, splitter, builder>>

NextLen ==
    \/ WriteLen
    \/ ReadLength

SpecLen == InitLen /\ [][NextLen]_vars

\* ---------------------------------------------------------------- words
\* A word is the sequence of its bytes; a str is the sequence of its UTF-8
\* bytes.
\* "!done", "!re", "!trap", "!fatal", "!empty"
CategoryWords ==
    { <<"Done", <<33, 100, 111, 110, 101>> >>,
      <<"Reply", <<33, 114, 101>> >>,
      <<"Trap", <<33, 116, 114, 97, 112>> >>,
      <<"Fatal", <<33, 102, 97, 116, 97, 108>> >>,
      <<"Empty", <<33, 101, 109, 112, 116, 121>> >> }

\* ".tag="
TagPrefix == <<46, 116, 97, 103, 61>>

\* b'='
EqualsSign == 61

\* bytes[from..], from counted from 0
From(bytes, from) == SubSeq(bytes, from + 1, Len(bytes))

\* std::str::from_utf8(bytes).is_ok(): the bytes below 0x80 stand for
\* themselves, and every other character is a lead byte and the
\* continuation bytes it asks for.
RECURSIVE from_utf8(_)
from_utf8(bytes) ==
    LET high == {i \in 1..Len(bytes) : bytes[i] >= 128}
        at == CHOOSE i \in high : \A j \in high : i <= j
        c == bytes[at]
        In(i, lo, hi) ==
            Len(bytes) >= at + i /\ bytes[at + i] >= lo /\ bytes[at + i] <= hi
        Cont(i) == In(i, 128, 191)
    IN  IF high = {} THEN TRUE
        ELSE IF c >= 194 /\ c <= 223
        THEN Cont(1) /\ from_utf8(From(bytes, at + 1))
        ELSE IF c >= 224 /\ c <= 239
        THEN /\ In(1, IF c = 224 THEN 160 ELSE 128, IF c = 237 THEN 159 ELSE 191)
             /\ Cont(2)
             /\ from_utf8(From(bytes, at + 2))
        ELSE IF c >= 240 /\ c <= 244
        THEN /\ In(1, IF c = 240 THEN 144 ELSE 128, IF c = 244 THEN 143 ELSE 191)
             /\ Cont(2)
             /\ Cont(3)
             /\ from_utf8(From(bytes, at + 3))
        ELSE FALSE

\* The value of a string of decimal digits, <<"Err">> past max.
RECURSIVE Digits(_, _, _)
Digits(s, acc, max) ==
    IF s = <<>> THEN <<"Ok", acc>>
    ELSE IF s[1] < 48 \/ s[1] > 57 THEN <<"Err">>
    ELSE IF acc * 10 + (s[1] - 48) > max THEN <<"Err">>
    ELSE Digits(Tail(s), acc * 10 + (s[1] - 48), max)

\* str::parse of an unsigned integer type whose largest value is max: an
\* optional '+', then at least one digit.
parse(s, max) ==
    LET digits == IF s # <<>> /\ s[1] = 43 THEN Tail(s) ELSE s
    IN  IF digits = <<>> THEN <<"Err">> ELSE Digits(digits, 0, max)

\* slice.splitn(2, |&b| b == b'='): the part before the first '=' and, when
\* there is one, the part after it.
splitn(bytes) ==
    LET eqs == {i \in 1..Len(bytes) : bytes[i] = EqualsSign}
        first == CHOOSE i \in eqs : \A j \in eqs : i <= j
    IN  IF eqs = {} THEN <<bytes>>
        ELSE <<SubSeq(bytes, 1, first - 1), From(bytes, first)>>

\* WordAttribute::try_from: <<"Ok", <<"Attribute", key, value, value_raw>> >>
\* or an error; an Option is <<"Some", bytes>> or <<"None">>.
WordAttribute(word) ==
    LET parts == splitn(Tail(word))
        value_raw == IF Len(parts) = 2 THEN <<"Some", parts[2]>> ELSE <<"None">>
        value == IF Len(parts) = 2 /\ from_utf8(parts[2])
                 THEN <<"Some", parts[2]>> ELSE <<"None">>
    IN  IF word = <<>> \/ word[1] # EqualsSign THEN <<"Err", "Attribute">>
        ELSE IF ~from_utf8(parts[1]) THEN <<"Err", "AttributeKeyNotUtf8">>
        ELSE <<"Ok", <<"Attribute", parts[1], value, value_raw>> >>

\* WordCategory::try_from
WordCategory(s) ==
    IF \E c \in CategoryWords : c[2] = s
    THEN <<"Ok", (CHOOSE c \in CategoryWords : c[2] = s)[1]>>
    ELSE <<"Err">>

\* s.strip_prefix(".tag=")
strip_prefix(s) ==
    IF Len(s) >= Len(TagPrefix) /\ SubSeq(s, 1, Len(TagPrefix)) = TagPrefix
    THEN <<"Some", From(s, Len(TagPrefix))>>
    ELSE <<"None">>

\* Word::try_from: <<"Ok", word>> or <<"Err", WordError>>
Word(value) ==
    LET utf8 == from_utf8(value)
        tag == parse(strip_prefix(value)[2], 65535)
    IN  IF utf8 /\ WordCategory(value)[1] = "Ok"
        THEN <<"Ok", <<"Category", WordCategory(value)[2]>> >>
        ELSE IF utf8 /\ strip_prefix(value)[1] = "Some"
        THEN IF tag[1] = "Ok" THEN <<"Ok", <<"Tag", tag[2]>> >>
             ELSE <<"Err", "Tag">>
        ELSE IF value # <<>> /\ value[1] = EqualsSign THEN WordAttribute(value)
        ELSE IF utf8 THEN <<"Ok", <<"Message", value>> >>
        ELSE <<"Err", "Utf8">>

\* ------------------------------------------------------------- sentences
\* start + length as usize, on a usize written <<hi, lo>>
AddUsize(start, length) ==
    <<start[1] + length[1] + (start[2] + length[2]) \div 65536,
      (start[2] + length[2]) % 65536>>

\* Sentence::next on the data d at position pos: <<what it returns, the new
\* position>>, what it returns being <<"None">>, <<"Some", Ok or Err>> or
\* the panic of read_length.
next(d, pos) ==
    LET r == read_length(From(d, pos[2]))
        start == AddUsize(pos, <<0, r[3]>>)
        end == AddUsize(start, r[2])
        word == IF end[1] = 0 /\ end[2] <= Len(d)
                THEN LET w == Word(SubSeq(d, start[2] + 1, end[2]))
                     IN  IF w[1] = "Ok" THEN w ELSE <<"Err", "WordError", w[2]>>
                ELSE <<"Err", "PrefixLength">>
    IN  IF pos[1] > 0 \/ pos[2] >= Len(d) THEN << <<"None">>, pos>>
        ELSE IF r[1] = "Panic" THEN << <<"Panic">>, pos>>
        ELSE IF r[1] = "Err" THEN << <<"Some", <<"Err", r[2]>> >>, pos>>
        ELSE IF r[2] = <<0, 0>> THEN << <<"None">>, pos>>
        ELSE << <<"Some", word>>, end>>

\* CommandBuffer::write_word: the bytes it appends for the word w.
write_word(w) == write_len(U32(Len(w))) \o w

\* The bytes of the sentence made of the words ws: each word as write_word
\* writes it, then the zero-length word.
RECURSIVE Encoded(_)
Encoded(ws) ==
    IF ws = <<>> THEN write_len(<<0, 0>>)
    ELSE write_word(Head(ws)) \o Encoded(Tail(ws))

\* The sequences of 1..n elements of the set S.
SeqsUpTo(S, n) == UNION {[1..k -> S] : k \in 1..n}

\* First bytes of every prefix width and of the reserved range, and bytes
\* that follow them.
PrefixBytes == {0, 1, 8, 127, 128, 129, 191, 192, 224, 240, 247, 248, 255}

\* Words of each kind: "!done", "!re", ".tag=123", ".tag=x", "=name=ether1",
\* "=a", "ok", and a byte that is no UTF-8.
WordSamples ==
    { <<33, 100, 111, 110, 101>>,
      <<33, 114, 101>>,
      <<46, 116, 97, 103, 61, 49, 50, 51>>,
      <<46, 116, 97, 103, 61, 120>>,
      <<61, 110, 97, 109, 101, 61, 101, 116, 104, 101, 114, 49>>,
      <<61, 97>>,
      <<111, 107>>,
      <<255>> }

\* The data of test_sentence_category_error and of
\* test_sentence_without_category: ".tag=123" under the length 0x0A and
\* "=name=ether1" under the length 0x0D.
TestData ==
    <<10, 46, 116, 97, 103, 61, 49, 50, 51,
      13, 61, 110, 97, 109, 101, 61, 101, 116, 104, 101, 114, 49>>

InitSentence ==
    /\ Connected
    /\ len = <<0, 0>> /\ cmd_buf = <<>> /\ ret = <<>>
    /\ data \in SeqsUpTo(PrefixBytes, MaxPrefix)
                \cup {Encoded(ws) : ws \in SeqsUpTo(WordSamples, MaxWords)}
                \cup {TestData}
    /\ position = <<0, 0>>
    /\ words = <<>>
    /\ SplitterIdle
    /\ BuilderIdle

\* One call of next() on the Sentence; a panic ends the caller.
SentenceNext ==
    /\ Len(words) < MaxNext
    /\ \A i \in 1..Len(words) : words[i][1] # "Panic"
    /\ words' = Append(words, next(data, position)[1])
    /\ position' = next(data, position)[2]
    /\ UNCHANGED <<engine, len, cmd_buf, ret, data, splitter, builder>>

NextSentence == SentenceNext

SpecSentence == InitSentence /\ [][NextSentence]_vars

\* ------------------------------------------------------------ responses
\* "category", "message"
CategoryKey == <<99, 97, 116, 101, 103, 111, 114, 121>>
MessageKey == <<109, 101, 115, 115, 97, 103, 101>>

\* HashMap::insert on a map held as the set of its <<key, value>> entries.
insert(attributes, key, value) ==
    {e \in attributes : e[1] # key} \cup {<<key, value>>}

\* ProtocolError::from(SentenceError), for the Some(Err(e)) that next()
\* returned.
SentenceErr(e) == <<"Err", "Sentence", Tail(e)>>

\* The attribute arm of the !trap loop: <<"Ok", category, message>> after
\* the attribute, or the error it returns with.
TrapAttribute(key, value, category, message) ==
    LET n == parse(value[2], 255)
    IN  IF key = CategoryKey
        THEN IF value[1] = "None" THEN <<"Ok", <<"None">>, message>>
             ELSE IF n[1] = "Err" THEN <<"Err", "TrapCategory", <<"Invalid">> >>
             ELSE IF n[2] > 7
             THEN <<"Err", "TrapCategory", <<"OutOfRange", n[2]>> >>
             ELSE <<"Ok", <<"Some", n[2]>>, message>>
        ELSE IF key = MessageKey THEN <<"Ok", category, value>>
        ELSE <<"Err", "TrapCategory", <<"InvalidAttribute", key, value>> >>

\* The end of the !re arm, after the loop.
ReplyEnd(tag, attributes) ==
    IF tag[1] = "None" THEN <<"Err", "Incomplete", "Category">>
    ELSE <<"Ok", <<"Reply", tag[2], attributes>> >>

\* A faulty variant: a !trap without message gets the empty message.
TrapEndNoMessage(tag, category, message) ==
    IF tag[1] = "None" THEN <<"Err", "Incomplete", "Category">>
    ELSE <<"Ok", <<"Trap", tag[2], category,
                   IF message[1] = "None" THEN <<>> ELSE message[2]>> >>

\* The end of the !trap arm, after the loop.
TrapEnd(tag, category, message) ==
    IF tag[1] = "None" THEN <<"Err", "Incomplete", "Category">>
    ELSE IF message[1] = "None"
    THEN <<"Err", "TrapCategory", <<"MissingMessageAttribute">> >>
    ELSE <<"Ok", <<"Trap", tag[2], category, message[2]>> >>

\* The !re arm from position pos on; n is what next() returns, taken once.
RECURSIVE Reply(_, _, _, _)
Reply(d, pos, tag, attributes) ==
    CHOOSE result \in {
        LET word == n[1][2][2]
        IN  IF n[1][1] = "Panic" THEN <<"Panic">>
            ELSE IF n[1][1] = "None" THEN ReplyEnd(tag, attributes)
            ELSE IF n[1][2][1] = "Err" THEN SentenceErr(n[1][2])
            ELSE IF word[1] = "Tag"
            THEN Reply(d, n[2], <<"Some", word[2]>>, attributes)
            ELSE IF word[1] = "Attribute"
            THEN Reply(d, n[2], tag, insert(attributes, word[2], word[3]))
            ELSE <<"Err", "WordSequence", word[1], {"Tag", "Attribute"}>> :
        n \in {next(d, pos)} } : TRUE

\* The !trap arm from position pos on; n is what next() returns, taken
\* once, and so are the tag, the category and the message so far.
RECURSIVE Trap(_, _, _, _, _)
Trap(d, pos, tag, category, message) ==
    CHOOSE result \in {
        LET word == n[1][2][2]
            a == TrapAttribute(word[2], word[3], c, m)
        IN  IF n[1][1] = "Panic" THEN <<"Panic">>
            ELSE IF n[1][1] = "None" THEN TrapEnd(t, c, m)
            ELSE IF n[1][2][1] = "Err" THEN SentenceErr(n[1][2])
            ELSE IF word[1] = "Tag"
            THEN Trap(d, n[2], <<"Some", word[2]>>, c, m)
            ELSE IF word[1] = "Attribute"
            THEN IF a[1] = "Ok" THEN Trap(d, n[2], t, a[2], a[3]) ELSE a
            ELSE <<"Err", "WordSequence", word[1], {"Tag", "Attribute"}>> :
        n \in {next(d, pos)}, t \in {tag}, c \in {category}, m \in {message} } : TRUE

\* The !done arm from position pos on; n is what next() returns, taken once.
Done(d, pos) ==
    CHOOSE result \in {
        LET word == n[1][2][2]
        IN  IF n[1][1] = "Panic" THEN <<"Panic">>
            ELSE IF n[1][1] = "None" THEN <<"Err", "Incomplete", "Tag">>
            ELSE IF n[1][2][1] = "Err" THEN SentenceErr(n[1][2])
            ELSE IF word[1] = "Tag" THEN <<"Ok", <<"Done", word[2]>> >>
            ELSE <<"Err", "WordSequence", word[1], {"Tag"}>> :
        n \in {next(d, pos)} } : TRUE

\* The !fatal arm from position pos on; n is what next() returns, taken
\* once.
Fatal(d, pos) ==
    CHOOSE result \in {
        LET word == n[1][2][2]
        IN  IF n[1][1] = "Panic" THEN <<"Panic">>
            ELSE IF n[1][1] = "None" THEN <<"Err", "Incomplete", "Message">>
            ELSE IF n[1][2][1] = "Err" THEN SentenceErr(n[1][2])
            ELSE IF word[1] = "Message" THEN <<"Ok", <<"Fatal", word[2]>> >>
            ELSE <<"Err", "WordSequence", word[1], {"Message"}>> :
        n \in {next(d, pos)} } : TRUE

\* The !empty arm, which this revision of the parser does not have: a
\* category that is accepted and carries its tag and nothing else.
Empty(d, pos) ==
    CHOOSE result \in {
        IF r[1] = "Ok" THEN <<"Ok", <<"Empty", r[2][2]>> >> ELSE r :
        r \in {Done(d, pos)} } : TRUE

\* CommandResponse::try_from(Sentence::new(d)): <<"Ok", response>>,
\* <<"Err", ProtocolError>>, or the panic of read_length.
try_from(d) ==
    CHOOSE result \in {
        LET word == n[1][2][2]
        IN  IF n[1][1] = "Panic" THEN <<"Panic">>
            ELSE IF n[1][1] = "None" THEN <<"Err", "Incomplete", "Category">>
            ELSE IF n[1][2][1] = "Err" THEN SentenceErr(n[1][2])
            ELSE IF word[1] # "Category"
            THEN <<"Err", "WordSequence", word[1], {"Category"}>>
            ELSE IF word[2] = "Done" THEN Done(d, n[2])
            ELSE IF word[2] = "Reply" THEN Reply(d, n[2], <<"None">>, {})
            ELSE IF word[2] = "Trap"
            THEN Trap(d, n[2], <<"None">>, <<"None">>, <<"None">>)
            ELSE IF word[2] = "Fatal" THEN Fatal(d, n[2])
            ELSE Empty(d, n[2]) :
        n \in {next(d, <<0, 0>>)} } : TRUE

\* The word ".tag=<n>" for one decimal digit n.
TagWord(n) == TagPrefix \o <<48 + n>>

\* The word "=<key>=<value>".
Attr(key, value) == <<EqualsSign>> \o key \o <<EqualsSign>> \o value

\* The word "=<key>", an attribute without value.
AttrFlag(key) == <<EqualsSign>> \o key

\* The category word of a response.
CategoryWord(cat) == (CHOOSE c \in CategoryWords : c[1] = cat)[2]

\* Words a router can put after the category: tags, message and category
\* attributes (with a value, without one, with a category out of 0..=7 or
\* that is no number), another attribute "k" (its value "v", not UTF-8, or
\* none), an attribute whose key is no UTF-8, and the plain word "ok".
ResponseWords ==
    { TagWord(7), TagWord(9),
      Attr(MessageKey, <<97>>), Attr(MessageKey, <<98>>), AttrFlag(MessageKey),
      Attr(CategoryKey, <<55>>), Attr(CategoryKey, <<56>>),
      Attr(CategoryKey, <<120>>), AttrFlag(CategoryKey),
      Attr(<<107>>, <<118>>), Attr(<<107>>, <<255>>), AttrFlag(<<107>>),
      Attr(<<255>>, <<118>>),
      <<111, 107>> }

\* The sentences parsed: a category word, then up to MaxAttrs words.
ResponseSamples ==
    { <<CategoryWord(cat)>> \o ws :
        cat \in {"Done", "Reply", "Trap", "Fatal"},
        ws \in {<<>>} \cup SeqsUpTo(ResponseWords, MaxAttrs) }

InitResponse ==
    /\ Connected
    /\ len = <<0, 0>> /\ cmd_buf = <<>> /\ ret = <<>>
    /\ data \in {Encoded(ws) : ws \in ResponseSamples}
    /\ position = <<0, 0>>
    /\ words = <<>>
    /\ SplitterIdle
    /\ BuilderIdle

\* process_packet's CommandResponse::try_from(Sentence::new(packet)).
ParseResponse ==
    /\ ret = <<>>
    /\ ret' = try_from(data)
    /\ UNCHANGED <<engine, len, cmd_buf, sentence, splitter, builder>>

NextResponse == ParseResponse

SpecResponse == InitResponse /\ [][NextResponse]_vars

\* ------------------------------------------------------------- splitter
\* The bytes of the sentences ss, one after the other.
RECURSIVE Concat(_)
Concat(ss) == IF ss = <<>> THEN <<>> ELSE Head(ss) \o Concat(Tail(ss))

\* packet_buf.iter().position(|&b| b == 0), counted from 1; 0 for None.
null_idx(buf) ==
    IF \E i \in 1..Len(buf) : buf[i] = 0
    THEN CHOOSE i \in 1..Len(buf) : buf[i] = 0 /\ \A j \in 1..(i - 1) : buf[j] # 0
    ELSE 0

\* The while loop over packet_buf: <<the packets drained, what is left>>.
RECURSIVE Drain(_, _)
Drain(buf, out) ==
    IF null_idx(buf) = 0 THEN <<out, buf>>
    ELSE Drain(From(buf, null_idx(buf)),
               Append(out, SubSeq(buf, 1, null_idx(buf))))

\* A faulty variant: a read replaces what the buffer held.
read_buf_replace(buf, chunk) == chunk

\* tcp_rx.read_buf(&mut packet_buf): the bytes read go after those held.
read_buf(buf, chunk) == buf \o chunk

\* Words of the sentences sent: "!re", "=a=" with the value byte 0, and a
\* word of 256 bytes, whose length is written 0x81 0x00.
SplitWords ==
    { <<33, 114, 101>>,
      Attr(<<97>>, <<0>>),
      [i \in 1..256 |-> 97] }

InitSplit ==
    /\ Connected
    /\ len = <<0, 0>> /\ cmd_buf = <<>> /\ ret = <<>>
    /\ SentenceIdle
    /\ stream \in SeqsUpTo({Encoded(ws) : ws \in SeqsUpTo(SplitWords, MaxSplitWords)},
                           MaxSentences)
    /\ nread = 0
    /\ packet_bytes = <<>>
    /\ packets = <<>>
    /\ BuilderIdle

\* One read of n bytes, or of all there is, and the loop that drains the
\* packets it completes.
ReadBuf ==
    LET bytes == Concat(stream)
    IN  /\ nread < Len(bytes)
        /\ \E n \in (1..MaxChunk) \cup {Len(bytes) - nread} :
              /\ nread + n <= Len(bytes)
              /\ LET chunk == SubSeq(bytes, nread + 1, nread + n)
                     r == Drain(read_buf(packet_bytes, chunk), <<>>)
                 IN  /\ nread' = nread + n
                     /\ packets' = packets \o r[1]
                     /\ packet_bytes' = r[2]
        /\ UNCHANGED <<engine, len, cmd_buf, ret, sentence, stream, builder>>

\* process_packet on the first packet: Sentence::new(packet), and one
\* next().
FirstWord ==
    /\ packets # <<>> /\ words = <<>>
    /\ data' = packets[1]
    /\ words' = <<next(packets[1], <<0, 0>>)[1]>>
    /\ position' = next(packets[1], <<0, 0>>)[2]
    /\ UNCHANGED <<engine, len, cmd_buf, ret, splitter, builder>>

NextSplit ==
    \/ ReadBuf
    \/ FirstWord

SpecSplit == InitSplit /\ [][NextSplit]_vars

\* ------------------------------------------- process_packet on the bytes
\* Packets the splitter hands over, each ending at its first zero byte:
\* one or two bytes of every prefix width and the terminator, sentences of
\* words, and such sentences with a reserved prefix byte before the
\* terminator.
PacketSamples ==
    {bs \o <<0>> : bs \in SeqsUpTo(PrefixBytes \ {0}, 2)}
    \cup {Encoded(ws) : ws \in SeqsUpTo(WordSamples, MaxWords)}
    \cup {SubSeq(Encoded(ws), 1, Len(Encoded(ws)) - 1) \o <<b, 0>> :
            ws \in SeqsUpTo(WordSamples, MaxWords), b \in {248, 255}}

InitPacket ==
    /\ Connected
    /\ len = <<0, 0>> /\ cmd_buf = <<>> /\ ret = <<>>
    /\ data \in PacketSamples
    /\ position = <<0, 0>>
    /\ words = <<>>
    /\ SplitterIdle
    /\ BuilderIdle

\* CommandResponse::try_from(Sentence::new(packet)) of process_packet.
PacketParse ==
    /\ ret = <<>>
    /\ ret' = try_from(data)
    /\ UNCHANGED <<engine, len, cmd_buf, sentence, splitter, builder>>

\* find_map is over: the closure returned Some(tag), next() returned None,
\* or read_length panicked.
ScanOver ==
    /\ words # <<>>
    /\ LET last == words[Len(words)] IN
       \/ last[1] \in {"None", "Panic"}
       \/ last[1] = "Some" /\ last[2][1] = "Ok" /\ last[2][2][1] = "Tag"

\* One turn of Sentence::new(packet).find_map(..) in the Err arm: the next
\* call of next() on a Sentence of its own.
PacketScan ==
    /\ ret # <<>> /\ ret[1] = "Err"
    /\ ~ScanOver
    /\ Len(words) < MaxScan
    /\ words' = Append(words, next(data, position)[1])
    /\ position' = next(data, position)[2]
    /\ UNCHANGED <<engine, len, cmd_buf, ret, data, splitter, builder>>

NextPacket ==
    \/ PacketParse
    \/ PacketScan

SpecPacket == InitPacket /\ [][NextPacket]_vars

\* -------------------------------------------------------------- builder
\* A str is the sequence of the code points of its chars.
\* The UTF-8 bytes of a char, and str::len, the number of bytes of a str.
utf8(ch) ==
    IF ch < 128 THEN <<ch>>
    ELSE IF ch < 2048 THEN <<192 + (ch \div 64), 128 + (ch % 64)>>
    ELSE IF ch < 65536
    THEN <<224 + (ch \div 4096), 128 + ((ch \div 64) % 64), 128 + (ch % 64)>>
    ELSE <<240 + (ch \div 262144), 128 + ((ch \div 4096) % 64),
           128 + ((ch \div 64) % 64), 128 + (ch % 64)>>

RECURSIVE as_bytes(_)
as_bytes(str) == IF str = <<>> THEN <<>> ELSE utf8(Head(str)) \o as_bytes(Tail(str))

\* encoding_rs::mem::str_latin1_up_to: the byte index of the first char
\* above U+00FF, or the length of the str in bytes.
RECURSIVE str_latin1_up_to(_)
str_latin1_up_to(str) ==
    IF str = <<>> \/ Head(str) > 255 THEN 0
    ELSE Len(utf8(Head(str))) + str_latin1_up_to(Tail(str))

\* check_latin1: chars().nth(i) is the char of index i, if there is one.
check_latin1(value) ==
    LET first_invalid_char == str_latin1_up_to(value)
    IN  IF first_invalid_char >= Len(as_bytes(value))
           /\ first_invalid_char < Len(value)
        THEN <<"Err", "HasInvalidCharacter", value[first_invalid_char + 1]>>
        ELSE <<"Ok">>

\* encoding_rs::mem::convert_utf8_to_latin1_lossy without debug
\* assertions: a byte below 0x80 is copied; any other byte is taken for the
\* lead byte of a two-byte sequence and gives one byte with the byte after
\* it, or nothing when it is the last byte.
RECURSIVE convert_utf8_to_latin1_lossy(_)
convert_utf8_to_latin1_lossy(src) ==
    IF src = <<>> THEN <<>>
    ELSE IF src[1] < 128 THEN <<src[1]>> \o convert_utf8_to_latin1_lossy(Tail(src))
    ELSE IF Len(src) = 1 THEN <<>>
    ELSE <<((BitAnd(src[1], 31) * 64) % 256) + BitAnd(src[2], 63)>>
         \o convert_utf8_to_latin1_lossy(From(src, 2))

\* encoding_rs::mem::encode_latin1_lossy: what a build can give, the bytes
\* or, with debug assertions and a char above U+00FF, a panic.
encode_latin1_lossy(str) ==
    {<<"Bytes", convert_utf8_to_latin1_lossy(as_bytes(str))>>}
    \cup (IF \E i \in 1..Len(str) : str[i] > 255 THEN {<<"Panic">>} ELSE {})

\* u16::to_string, and format!(".tag={tag}")
RECURSIVE to_string(_)
to_string(n) ==
    IF n < 10 THEN <<48 + n>> ELSE to_string(n \div 10) \o <<48 + (n % 10)>>

TagText(tag) == TagPrefix \o to_string(tag)

\* The first error of check_latin1 over the values, or Ok.
RECURSIVE check_all(_)
check_all(values) ==
    IF values = <<>> THEN <<"Ok">>
    ELSE IF check_latin1(Head(values))[1] = "Err" THEN check_latin1(Head(values))
    ELSE check_all(Tail(values))

\* write_word(encode_latin1_lossy(text)) for each text in turn: the buffers
\* it can give, or a panic.
RECURSIVE write_words(_, _)
write_words(buf, texts) ==
    IF texts = <<>> THEN {<<"Ok", buf>>}
    ELSE UNION { IF out[1] = "Panic" THEN {<<"Panic">>}
                 ELSE write_words(buf \o write_word(out[2]), Tail(texts)) :
                 out \in encode_latin1_lossy(Head(texts)) }

\* A builder call that checks the values and then writes the texts.
checked(buf, values, texts) ==
    IF check_all(values)[1] = "Err" THEN {check_all(values)}
    ELSE write_words(buf, texts)

\* CommandBuilder::command
command(tag, buf, path) == checked(buf, <<path>>, <<path, TagText(tag)>>)

\* CommandBuilder::attribute, value being <<"Some", v>> or <<"None">>
attribute(buf, key, value) ==
    IF value[1] = "Some"
    THEN checked(buf, <<key, value[2]>>,
                 << <<EqualsSign>> \o key \o <<EqualsSign>> \o value[2] >>)
    ELSE checked(buf, <<key>>, << <<EqualsSign>> \o key \o <<EqualsSign>> >>)

\* query_is_present "?", query_not_present "?-", query_equal "?",
\* query_gt "?>", query_lt "?<": the text before the name, and whether a
\* value follows it.
QueryKinds ==
    { <<"is_present", <<63>>, FALSE>>, <<"not_present", <<63, 45>>, FALSE>>,
      <<"equal", <<63>>, TRUE>>, <<"gt", <<63, 62>>, TRUE>>,
      <<"lt", <<63, 60>>, TRUE>> }

query(buf, kind, name, value) ==
    IF kind[3]
    THEN checked(buf, <<name, value>>,
                 << kind[2] \o name \o <<EqualsSign>> \o value >>)
    ELSE checked(buf, <<name>>, << kind[2] \o name >>)

\* QueryOperator::code: '!', '&', '|', '.'
OperatorCodes == {33, 38, 124, 46}

\* query_operations: "?#" and the codes, written as they are.
query_operations(buf, operations) == buf \o write_word(<<63, 35>> \o operations)

\* build: the Command, as <<"Command", tag, data>>.
build(tag, buf) == <<"Command", tag, buf \o write_len(<<0, 0>>)>>

\* "/login", "name", "password", "/cancel", "tag"
LoginPath == <<47, 108, 111, 103, 105, 110>>
NameKey == <<110, 97, 109, 101>>
PasswordKey == <<112, 97, 115, 115, 119, 111, 114, 100>>
CancelPath == <<47, 99, 97, 110, 99, 101, 108>>
TagKey == <<116, 97, 103>>

\* CommandBuilder::login, tag being the tag that new() drew: `?` returns
\* the error of a call, and a panic ends it all.
login(tag, username, password) ==
    LET commanded == command(tag, <<>>, LoginPath)
        named == UNION {IF o[1] = "Ok"
                        THEN attribute(o[2], NameKey, <<"Some", username>>)
                        ELSE {o} : o \in commanded}
        passed == UNION {IF o[1] = "Ok"
                         THEN attribute(o[2], PasswordKey, password)
                         ELSE {o} : o \in named}
    IN  {IF o[1] = "Ok" THEN build(tag, o[2]) ELSE o : o \in passed}

\* CommandBuilder::cancel, whose expect() panics on an error.
cancel(tag) ==
    LET commanded == {IF o[1] = "Err" THEN <<"Panic">> ELSE o :
                      o \in command(tag, <<>>, CancelPath)}
        tagged == UNION {IF o[1] = "Ok"
                         THEN attribute(o[2], TagKey, <<"Some", to_string(tag)>>)
                         ELSE {o} : o \in commanded}
        expected == {IF o[1] = "Err" THEN <<"Panic">> ELSE o : o \in tagged}
    IN  {IF o[1] = "Ok" THEN build(tag, o[2]) ELSE o : o \in expected}

\* Strings given to the builder: "a", "é" (U+00E9), "Ā" (U+0100), "Āa".
StrSamples == {<<97>>, <<233>>, <<256>>, <<256, 97>>}

\* Tags of the builder: of with_tag, or drawn by new().
TagSamples == {7, 1234, 65535}

InitBuild ==
    /\ Connected
    /\ len = <<0, 0>> /\ cmd_buf = <<>> /\ ret = <<>>
    /\ SentenceIdle
    /\ SplitterIdle
    /\ btag \in TagSamples
    /\ bstate = "NoCmd"
    /\ calls = <<>>

\* The builder after a call that had the outcome o.
Called(call, o) ==
    /\ calls' = Append(calls, call)
    /\ ret' = IF o[1] = "Ok" THEN <<"Ok">> ELSE o
    /\ bstate' = IF o[1] = "Ok" THEN "Cmd" ELSE o[1]
    /\ cmd_buf' = IF o[1] = "Ok" THEN o[2] ELSE cmd_buf
    /\ UNCHANGED <<engine, len, sentence, splitter, btag>>

BuilderCommand ==
    /\ bstate = "NoCmd"
    /\ \E path \in StrSamples :
          \E o \in command(btag, cmd_buf, path) : Called(<<"command", path>>, o)

BuilderAttribute ==
    /\ bstate = "Cmd" /\ Len(calls) <= MaxCalls
    /\ \E key \in StrSamples, value \in {<<"None">>} \cup {<<"Some", v>> : v \in StrSamples} :
          \E o \in attribute(cmd_buf, key, value) :
             Called(<<"attribute", key, value>>, o)

BuilderQuery ==
    /\ bstate = "Cmd" /\ Len(calls) <= MaxCalls
    /\ \E kind \in QueryKinds, name \in StrSamples, value \in StrSamples :
          /\ ~kind[3] => value = name
          /\ \E o \in query(cmd_buf, kind, name, value) :
                Called(<<"query", kind, name, value>>, o)

BuilderQueryOperations ==
    /\ bstate = "Cmd" /\ Len(calls) <= MaxCalls
    /\ \E operations \in SeqsUpTo(OperatorCodes, 1) :
          Called(<<"query_operations", operations>>,
                 <<"Ok", query_operations(cmd_buf, operations)>>)

BuilderBuild ==
    /\ bstate = "Cmd"
    /\ ret' = build(btag, cmd_buf)
    /\ bstate' = "Built"
    /\ UNCHANGED <<engine, len, cmd_buf, sentence, splitter, btag, calls>>

\* A call that goes from new() or with_tag() to the Command.
Whole(call, o) ==
    /\ calls' = <<call>>
    /\ ret' = o
    /\ bstate' = IF o[1] = "Command" THEN "Built" ELSE o[1]
    /\ UNCHANGED <<engine, len, cmd_buf, sentence, splitter, btag>>

BuilderLogin ==
    /\ bstate = "NoCmd"
    /\ \E username \in StrSamples,
          password \in {<<"None">>} \cup {<<"Some", v>> : v \in StrSamples} :
          \E o \in login(btag, username, password) :
             Whole(<<"login", username, password>>, o)

BuilderCancel ==
    /\ bstate = "NoCmd"
    /\ \E o \in cancel(btag) : Whole(<<"cancel">>, o)

NextBuild ==
    \/ BuilderCommand
    \/ BuilderAttribute
    \/ BuilderQuery
    \/ BuilderQueryOperations
    \/ BuilderBuild
    \/ BuilderLogin
    \/ BuilderCancel

SpecBuild == InitBuild /\ [][NextBuild]_vars

\* ------------------------------------------------------------- claims
\* A step of the worker that routes the first packet of the buffer.
RoutesPacket == pc = "drain" /\ packet_buf' = Tail(packet_buf)

\* A value made from a tagged sentence: Ok(Done), Ok(Empty), Ok(Reply), Ok(Trap).
IsResponse(v) == v[1] \in TaggedCats

UserSinks == 1..MaxCmds

\* The sink is closed: it was handed to the engine and no sending end is left.
Closed(s) == rx[s] \in {"alive", "dropped"} /\ ~SenderAlive(s)

\* C1 (order within a sink): the values of a sink are in the order of the
\* router's transcript, whatever is interleaved between them.
C1_Ordered ==
    \A s \in Sinks : \A i, j \in 1..Len(delivered[s]) :
        i < j => delivered[s][i][3] < delivered[s][j][3]

\* C1 (nothing is lost): a sentence routed while its tag is pending under a
\* sink with a live receiver is appended to that sink in that step.
C1_NoLoss ==
    RoutesPacket =>
        LET pkt == Head(packet_buf) IN
        (pkt[2] \in DOMAIN running_commands
            /\ rx[running_commands[pkt[2]]] = "alive") =>
        delivered'[running_commands[pkt[2]]]
            = Append(delivered[running_commands[pkt[2]]], pkt)

\* C1: for every command, the responses carrying its tag are delivered to
\* its sink in exactly the order in which their sentences arrived on the
\* socket, however sentences of other tags are interleaved between them.
C1_WireOrder == []C1_Ordered /\ [][C1_NoLoss]_vars

\* C1's case: wire order re(A), re(B), done(A), re(B), done(B) has given
\* sink A [Reply, Done] and sink B [Reply, Reply, Done], both closed.
C1_Witness ==
    /\ cmd_tag[1] # cmd_tag[2]
    /\ delivered[1] = << <<"Reply", cmd_tag[1], 2>>, <<"Done", cmd_tag[1], 4>> >>
    /\ delivered[2] = << <<"Reply", cmd_tag[2], 3>>, <<"Reply", cmd_tag[2], 5>>,
                         <<"Done", cmd_tag[2], 6>> >>
    /\ Closed(1) /\ Closed(2)

Last(seq) == seq[Len(seq)]

\* A step of the worker: the callers and the environment leave alone what
\* the worker changes.
WorkerStep ==
    /\ vars' # vars
    /\ UNCHANGED <<client, connect_ret, next_sink, cmd_tag, rx, sent, sock_rx,
                   taken>>
    /\ sock_tx' = sock_tx \/ (pc' = "done" /\ sock_tx' = "shutdown")
    /\ Len(wire') <= Len(wire)

\* C2: a Done, Reply, Trap or Empty response carrying tag T is delivered
\* only to the sink registered under T in the pending table at the moment
\* its sentence is routed: a step that gives a sink such a value is a
\* routing step of that very sentence, and the sink is the table's entry for
\* the sentence's tag.
C2_Step ==
    \A s \in Sinks :
        delivered'[s] # delivered[s] =>
            /\ delivered'[s] = Append(delivered[s], Last(delivered'[s]))
            /\ IsResponse(Last(delivered'[s])) =>
                  /\ RoutesPacket
                  /\ Last(delivered'[s]) = Head(packet_buf)
                  /\ Head(packet_buf)[2] \in DOMAIN running_commands
                  /\ running_commands[Head(packet_buf)[2]] = s

C2_RoutedByTag == [][C2_Step]_vars

\* C2's case: two commands are pending under different tags and only one of
\* them has been sent a response, which carries its tag.
C2_Witness ==
    \E t1, t2 \in DOMAIN running_commands :
        /\ t1 # t2
        /\ delivered[running_commands[t1]] = << <<"Reply", t1, sent>> >>
        /\ delivered[running_commands[t2]] = <<>>

\* The run so far is free of Fatal, IO errors and handle drops (nothing has
\* set the shutdown flag, a handle exists), and sink s got no parse error.
CleanFor(s) ==
    /\ why = "none" /\ ~shutdown /\ pc # "done"
    /\ client = "ready"
    /\ \A i \in 1..Len(delivered[s]) :
          delivered[s][i][1] \notin {"ErrProtocol", "ErrConnection", "Fatal"}

\* No other command of the connection carries the tag of sink s.
UniqueTag(s) == \A s2 \in UserSinks \ {s} : cmd_tag[s2] # cmd_tag[s]

\* A value of one of `cats` is the last value of its sink, and the engine
\* has dropped the sending end of that sink.
TerminalLast(cats) ==
    \A s \in Sinks : \A i \in 1..Len(delivered[s]) :
        delivered[s][i][1] \in cats =>
            i = Len(delivered[s]) /\ ~SenderAlive(s)

\* A closed sink with a live receiver and a tag of its own, on a clean run,
\* ends with a value of one of `cats`.
EndsWith(cats) ==
    \A s \in UserSinks :
        (Closed(s) /\ rx[s] = "alive" /\ CleanFor(s) /\ UniqueTag(s)) =>
            Len(delivered[s]) > 0 /\ Last(delivered[s])[1] \in cats

SubmitStep ==
    /\ WorkerStep
    /\ pc = "select" /\ pc' = "select"
    /\ submit_q # <<>> /\ submit_q' = Tail(submit_q)

\* The write of a command with tag T succeeds.
WriteOk(T) == SubmitStep /\ Head(submit_q).tag = T /\ sock_tx = "ok"

\* The worker routes a sentence of one of `cats` carrying tag T.
Routes(cats, T) ==
    RoutesPacket /\ Head(packet_buf)[1] \in cats /\ Head(packet_buf)[2] = T

\* The shutdown flag is set in this step.
ShutdownSet == ~shutdown /\ shutdown'

\* C4 as stated, step by step: T is in the table after a step iff the step
\* wrote a command with tag T successfully, or T was in the table and the
\* step observed neither a terminal response (Done or Trap) for T nor a
\* connection-wide fatal event (a Fatal sentence, or anything that sets the
\* shutdown flag).
C4_OriginalStep ==
    \A T \in Tags :
        (T \in DOMAIN running_commands') <=>
            \/ WriteOk(T)
            \/ /\ T \in DOMAIN running_commands
               /\ ~Routes({"Done", "Trap"}, T)
               /\ ~Routes({"Fatal"}, 0)
               /\ ~ShutdownSet

Removes(T) ==
    \/ Routes({"Done", "Trap", "Empty", "Bad"}, T)
    \/ /\ Routes({"Reply"}, T)
       /\ T \in DOMAIN running_commands
       /\ rx[running_commands[T]] # "alive"
    \/ Routes({"Fatal", "Bad"}, 0)
    \/ pc = "select" /\ ShutdownSet
    \/ pc # "done" /\ pc' = "done"

C4_AmendedStep ==
    \A T \in Tags :
        (T \in DOMAIN running_commands') <=>
            \/ WriteOk(T)
            \/ T \in DOMAIN running_commands /\ ~Removes(T)

FansOut(v) ==
    /\ \A s \in Drained(running_commands) :
          /\ rx[s] = "alive" => delivered'[s] = Append(delivered[s], v)
          /\ rx[s] # "alive" => delivered'[s] = delivered[s]
          /\ ~SenderAlive(s)'
    /\ \A s \in Sinks \ Drained(running_commands) : delivered'[s] = delivered[s]

\* A closed sink stays closed and is sent nothing.
ClosedIsQuiet ==
    \A s \in Sinks : Closed(s) => delivered'[s] = delivered[s] /\ Closed(s)'

\* With the flag set and the table empty nothing is written any more, and
\* so it stays.
NoWriteAfter ==
    (shutdown /\ running_commands = EmptyMap) =>
        /\ written' = written
        /\ shutdown' /\ running_commands' = EmptyMap

C5_Step ==
    /\ Routes({"Fatal"}, 0) =>
          /\ FansOut(Head(packet_buf))
          /\ running_commands' = EmptyMap
          /\ shutdown'
          /\ written' = written
    /\ ClosedIsQuiet
    /\ NoWriteAfter

\* C5: when a Fatal sentence is routed, every sink of the pending table
\* receives exactly one Ok(Fatal) and is then closed, the table becomes
\* empty, the shutdown flag is set, and nothing is written afterwards.
C5_Fatal == [][C5_Step]_vars

\* C5's case: two pending commands have both got the Fatal as their last
\* value, and the worker has ended.
C5_Witness ==
    /\ \A s \in UserSinks :
          /\ Closed(s) /\ rx[s] = "alive"
          /\ delivered[s] # <<>> /\ Last(delivered[s])[1] = "Fatal"
    /\ \E s \in UserSinks :
          Len(delivered[s]) = 2 /\ delivered[s][1][1] = "Reply"
    /\ cmd_tag[1] # cmd_tag[2]
    /\ pc = "done"

\* The worker's read returns 0: it is at the select!, the peer has closed
\* and no sentence is left at the socket.
EofStep ==
    WorkerStep /\ pc = "select" /\ ~shutdown /\ sock_rx = "eof" /\ wire = <<>>

C6_Step ==
    /\ EofStep =>
          /\ FansOut(<<"ErrConnection", "ConnectionAborted", 0>>)
          /\ running_commands' = EmptyMap
          /\ shutdown' /\ pc' = "select"
          /\ written' = written
    /\ ClosedIsQuiet
    /\ (WorkerStep /\ pc = "select" /\ shutdown) => pc' = "done"

\* C6: when a socket read returns 0 bytes, every sink of the pending table
\* receives exactly one Err(Connection(ConnectionAborted)) and is then
\* closed, the shutdown flag is set, and the worker's next step ends the
\* task.
C6_PeerClose == [][C6_Step]_vars

\* C6's case: two pending commands have both got the error as their only
\* value, and the worker has ended.
C6_Witness ==
    /\ \A s \in UserSinks :
          /\ Closed(s) /\ rx[s] = "alive"
          /\ delivered[s] = << <<"ErrConnection", "ConnectionAborted", 0>> >>
    /\ cmd_tag[1] # cmd_tag[2]
    /\ why = "eof" /\ pc = "done"

\* An I/O error of kind `kind` is fanned out as a peer close is.
FansOutIo(kind) ==
    /\ FansOut(Connection(kind))
    /\ running_commands' = EmptyMap
    /\ shutdown'

\* The read of the select! fails.
ReadErrStep ==
    WorkerStep /\ pc = "select" /\ ~shutdown /\ sock_rx \in IoKinds /\ wire = <<>>

\* The write of a submitted command fails.
SubmitFail ==
    /\ WorkerStep
    /\ pc = "select" /\ ~shutdown /\ ~ReadReady
    /\ submit_q # <<>> /\ submit_q' = Tail(submit_q)
    /\ sock_tx # "ok"

\* The write of a /cancel fails: a Reply is routed to an entry whose
\* receiver is gone, and the socket does not take the write.
CancelFail ==
    /\ RoutesPacket
    /\ Head(packet_buf)[1] = "Reply"
    /\ Head(packet_buf)[2] \in DOMAIN running_commands
    /\ rx[running_commands[Head(packet_buf)[2]]] # "alive"
    /\ sock_tx # "ok"

C9_Step ==
    /\ ReadErrStep => FansOutIo(sock_rx)
    /\ SubmitFail => FansOutIo(sock_tx)
    /\ CancelFail => FansOutIo(sock_tx)

\* C9: every I/O error (a failed read, a failed command write, a failed
\* /cancel write) is delivered as Err(Connection(kind)) to every sink of
\* the pending table, which is then closed, and sets the shutdown flag.
C9_IoFanOut == [][C9_Step]_vars

\* C10: when the write of a command fails, the error is delivered on the
\* stream send_command returned for that command.
C10_Step ==
    (SubmitFail /\ rx[Head(submit_q).respond_to] = "alive") =>
        delivered'[Head(submit_q).respond_to] =
            Append(delivered[Head(submit_q).respond_to], Connection(sock_tx))

C10_WriteError == [][C10_Step]_vars

\* A /cancel carrying tag T has been written to the socket.
CancelWritten(T) == \E i \in 1..Len(written) : written[i] = <<"cancel", T, TRUE>>

\* The caller has dropped the receive end of s, and s is in the table.
DroppedPending(s) == rx[s] = "dropped" /\ s \in Drained(running_commands)

\* C7 as stated: once the receiver of a pending sink is dropped, a /cancel
\* with its tag is eventually written, whatever the router does.
C7_Original ==
    \A s \in UserSinks :
        [](DroppedPending(s) => <>CancelWritten(cmd_tag[s]))

\* The sentence the worker routes next, if the router has sent one.
Incoming == packet_buf \o wire

\* A Reply is routed to a pending sink whose receiver is gone.
ReplyToDropped(s) ==
    /\ RoutesPacket
    /\ Head(packet_buf)[1] = "Reply"
    /\ Head(packet_buf)[2] \in DOMAIN running_commands
    /\ running_commands[Head(packet_buf)[2]] = s
    /\ rx[s] = "dropped"

C7_Step ==
    /\ \A s \in UserSinks :
          ReplyToDropped(s) =>
              /\ written' = Append(written, <<"cancel", cmd_tag[s], TRUE>>)
              /\ cmd_tag[s] \notin DOMAIN running_commands'
              /\ Closed(s)'
    /\ (\E s \in UserSinks : ReplyToDropped(s))
          \/ Len(written') = Len(written)
          \/ Last(written')[1] # "cancel"

\* C7 amended: the engine writes /cancel for T exactly when it routes a
\* Reply for T to a pending sink whose receiver is dropped, and it removes
\* the entry in that step; so, with the worker scheduled fairly, a dropped
\* pending sink whose tag the router's next sentence is a Reply for leads
\* to the /cancel on the wire.
C7_CancelOnReply ==
    /\ [][C7_Step]_vars
    /\ \A s \in UserSinks :
          (DroppedPending(s) /\ Incoming # <<>> /\ Head(Incoming)[1] = "Reply")
              ~> (Closed(s) /\ Last(written) = <<"cancel", StreamTag, TRUE>>)

\* C7's case: the caller got two Replies and dropped the stream, the third
\* Reply made the engine write /cancel, and the sink is closed.
C7_Witness ==
    /\ rx[1] = "dropped" /\ Closed(1)
    /\ Len(delivered[1]) = 2
    /\ Last(written) = <<"cancel", StreamTag, TRUE>>
    /\ next_sink = 2

\* The streaming-with-cancel scenario: one command, its receiver dropped,
\* its /cancel written.
Cancelled ==
    /\ next_sink = 2
    /\ rx[1] = "dropped"
    /\ CancelWritten(StreamTag)

C8_Step ==
    /\ \A s \in UserSinks : rx[s] = "dropped" => delivered'[s] = delivered[s]
    /\ (Cancelled /\ Routes({"Trap", "Done"}, StreamTag)) =>
          delivered' = delivered /\ written' = written
    /\ Routes({"Done"}, StreamTag) => StreamTag \notin DOMAIN running_commands'

\* C8: in the streaming-with-cancel scenario nothing is delivered to the
\* sink after the drop, the Trap and the Done that follow the /cancel
\* deliver nothing and write nothing, and the table has no entry for the tag
\* from the /cancel on, so none after the Done.
C8_StreamCancel ==
    /\ [][C8_Step]_vars
    /\ [](Cancelled => StreamTag \notin DOMAIN running_commands /\ Closed(1))

\* C8's case: three Replies delivered, the receiver dropped, the fourth
\* Reply answered with /cancel, the router's Trap about to be routed and its
\* Done at the socket.
C8_Witness ==
    /\ Cancelled
    /\ Len(delivered[1]) = 3
    /\ \A i \in 1..3 : delivered[1][i] = <<"Reply", StreamTag, i + 1>>
    /\ written = << <<"login", LoginTag, TRUE>>, <<"cmd", StreamTag, TRUE>>,
                    <<"cancel", StreamTag, TRUE>> >>
    /\ pc = "drain"
    /\ packet_buf = << <<"Trap", StreamTag, 6>> >>
    /\ wire = << <<"Done", StreamTag, 7>> >>

\* C11: a sentence that fails to parse and carries tag T gives its error to
\* the sink pending under T and to no other sink; one without a tag gives
\* the same error to every pending sink; neither changes the shutdown flag
\* nor ends the worker.
C11_Step ==
    /\ \A T \in Tags :
          Routes({"Bad"}, T) =>
              /\ \A s \in Sinks :
                    delivered'[s] =
                        IF /\ T \in DOMAIN running_commands
                           /\ running_commands[T] = s
                           /\ rx[s] = "alive"
                        THEN Append(delivered[s],
                                    <<"ErrProtocol", T, Head(packet_buf)[3]>>)
                        ELSE delivered[s]
              /\ shutdown' = shutdown /\ pc' # "done"
    /\ Routes({"Bad"}, 0) =>
          /\ FansOut(<<"ErrProtocol", 0, Head(packet_buf)[3]>>)
          /\ shutdown' = shutdown /\ pc' # "done"

ClosedStep ==
    /\ WorkerStep
    /\ pc = "select" /\ ~shutdown
    /\ wire = <<>> /\ sock_rx = "open"
    /\ submit_q = <<>> /\ client = "dropped"

\* The writes of a step: what it appended to `written`.
NewWrites ==
    [i \in 1..(Len(written') - Len(written)) |-> written'[Len(written) + i]]

C12_Step ==
    /\ ClosedStep =>
          /\ SubSeq(written', 1, Len(written)) = written
          /\ Len(NewWrites) = Cardinality(DOMAIN running_commands)
          /\ \A T \in DOMAIN running_commands :
                \E i \in DOMAIN NewWrites :
                    NewWrites[i][1] = "cancel" /\ NewWrites[i][2] = T
          /\ running_commands' = EmptyMap
          /\ shutdown' /\ pc' = "select"
    /\ (WorkerStep /\ pc = "select" /\ shutdown) =>
          pc' = "done" /\ sock_tx' = "shutdown" /\ written' = written

\* C12: when the worker finds the submit channel closed it writes one
\* /cancel for every tag of the table, whatever the writes return, empties
\* the table and sets the flag; its next step shuts the write half down and
\* ends the task.
C12_ChannelClosed == [][C12_Step]_vars

\* C12's case: two commands were pending when the handle went, both tags
\* were cancelled, and the worker has ended.
C12_Witness ==
    /\ why = "closed" /\ pc = "done" /\ sock_tx = "shutdown"
    /\ Len(written) = 5
    /\ {written[4][2], written[5][2]} = Tags
    /\ written[4][1] = "cancel" /\ written[5][1] = "cancel"

\* login() takes a value from its sink, and connect() returns.
LoginRecvStep == client = "connecting" /\ client' # "connecting"

\* The first value sent into the login sink.
FirstLogin == delivered[LoginSink][1]

C13_Step ==
    /\ (LoginRecvStep /\ delivered[LoginSink] # <<>>) =>
          /\ FirstLogin[1] = "Done" =>
                connect_ret' = <<"Ok">> /\ client' = "ready"
          /\ FirstLogin[1] = "Trap" =>
                connect_ret' = <<"Err", <<"Authentication", FirstLogin>>>>
          /\ FirstLogin[1] \in {"Reply", "Fatal", "Empty"} =>
                connect_ret' = <<"Err", <<"ResponseSequence", FirstLogin,
                                          <<"Done", "Trap">>>>>>
    /\ connect_ret # <<"Pending">> => connect_ret' = connect_ret

\* C13: connect resolves by the first value of the login sink: Ok(Done)
\* gives a handle, Ok(Trap) an Authentication error carrying that Trap, and
\* Ok(Reply), Ok(Fatal) or Ok(Empty) a ResponseSequence error carrying the
\* response and the expected kinds Done and Trap.
C13_LoginResult == [][C13_Step]_vars

\* C13's case: the router answered the login with a !trap, and connect
\* returned the Authentication error with that Trap in it.
C13_Witness ==
    /\ connect_ret = <<"Err", <<"Authentication", <<"Trap", LoginTag, 1>>>>>>
    /\ delivered[LoginSink] = << <<"Trap", LoginTag, 1>> >>
    /\ client = "dropped"

\* The login sink has yielded Ok(Done).
LoginDone ==
    /\ taken[LoginSink] = 1
    /\ delivered[LoginSink][1][1] = "Done"

\* C14: the first write of a connection is the login command; a handle
\* exists, a send_command call is made and a caller's command is queued or
\* written only after the login sink has yielded Ok(Done).
C14_LoginFirst ==
    /\ written # <<>> => written[1][1] = "login"
    /\ (client = "ready" \/ next_sink > 1) => LoginDone
    /\ \A i \in 1..Len(submit_q) : submit_q[i].data = "cmd" => LoginDone
    /\ \A i \in 1..Len(written) : written[i][1] = "cmd" => LoginDone /\ i > 1

\* C14's case: the login was written and answered with !done, then a
\* caller's command was written.
C14_Witness ==
    /\ Len(written) = 2
    /\ written[1] = <<"login", LoginTag, TRUE>>
    /\ written[2][1] = "cmd" /\ written[2][3]
    /\ connect_ret = <<"Ok">>

\* connect() has returned an error.
LoginFailed == connect_ret[1] = "Err"

C15_Step ==
    (LoginRecvStep /\ delivered[LoginSink] # <<>> /\ FirstLogin[1] # "Done") =>
        LoginFailed'

SendCommandStep == next_sink' = next_sink + 1

C16_Step ==
    /\ (SendCommandStep /\ pc = "done") =>
          /\ rx'[next_sink] = "rejected"
          /\ submit_q' = submit_q
    /\ pc = "done" => written' = written /\ submit_q' = <<>> /\ pc' = "done"
    /\ \A s \in Sinks :
          rx[s] = "rejected" => rx'[s] = "rejected" /\ delivered'[s] = <<>>

\* C16: a send_command call made once the worker task has ended returns
\* the Channel error and no stream, queues nothing, and nothing is written
\* to the socket.
C16_ActorUnavailable == [][C16_Step]_vars

\* C16's case: a Fatal has ended the worker with a command pending, and a
\* send_command made afterwards was refused.
C16_Witness ==
    /\ why = "fatal" /\ pc = "done"
    /\ rx[1] = "alive" /\ Len(delivered[1]) = 1
    /\ delivered[1][1][1] = "Fatal"
    /\ rx[2] = "rejected"

\* The socket read of the select! is ready: bytes, end of stream or an error.
SocketReadable == wire # <<>> \/ sock_rx # "open"

\* The worker handles the socket read: it has bytes to go through, or the
\* read has set the flag.
HandlesRead ==
    \/ pc' = "drain" /\ packet_buf' # <<>> /\ Len(wire') < Len(wire)
    \/ shutdown' /\ why' \in {"eof", "read_err"}

C17_Step ==
    /\ (WorkerStep /\ pc = "select" /\ ~shutdown /\ SocketReadable) =>
          /\ HandlesRead
          /\ submit_q' = submit_q
          /\ written' = written
    /\ (WorkerStep /\ pc = "select" /\ ~shutdown /\ ~HandlesRead) =>
          ~SocketReadable

\* C17: an iteration of the worker's loop in which the socket read is
\* ready handles the read, whatever is queued in the submit channel; a
\* submit message or the closed channel is handled only in an iteration in
\* which the socket read is not ready.
C17_ReadPreferred == [][C17_Step]_vars

\* C17's case: a sentence was at the socket and a message in the submit
\* channel; the worker has read the sentence and the message still waits.
C17_Witness ==
    /\ pc = "drain" /\ packet_buf # <<>>
    /\ Len(submit_q) = 2
    /\ written = << <<"login", LoginTag, TRUE>> >>
    /\ wire = <<>> /\ sent = 2

\* The command of sink s has been written and registered.
Registered(s) ==
    /\ rx[s] \in {"alive", "dropped"}
    /\ \A i \in 1..Len(submit_q) : submit_q[i].respond_to # s
    /\ \E i \in 1..Len(written) : written[i] = <<"cmd", cmd_tag[s], TRUE>>

\* A later command with the tag of s has been written and registered.
Displaced(s) ==
    /\ Registered(s)
    /\ \E s2 \in UserSinks :
          s2 > s /\ Registered(s2) /\ cmd_tag[s2] = cmd_tag[s]

C18_Step ==
    /\ \A T \in Tags :
          WriteOk(T) =>
              /\ T \in DOMAIN running_commands'
              /\ running_commands'[T] = Head(submit_q).respond_to
    /\ \A s \in UserSinks : Displaced(s) => delivered'[s] = delivered[s]
    /\ \A s \in UserSinks :
          (RoutesPacket /\ delivered'[s] # delivered[s]) =>
              /\ Head(packet_buf)[2] \in DOMAIN running_commands
              /\ running_commands[Head(packet_buf)[2]] = s

\* C18: a command written under a tag that is in the table takes the
\* entry over; the older sink is out of the table, and every response for
\* the tag routed afterwards goes to the sink registered at that moment,
\* never to the older one.
C18_LastWriterWins ==
    /\ [][C18_Step]_vars
    /\ [](\A s \in UserSinks : Displaced(s) => s \notin Drained(running_commands))

\* C18's case: the first command got a Reply, a second command took its
\* tag over while it was pending, and the next Reply and the Done went to
\* the second sink; the first one is closed with its one Reply.
C18_Witness ==
    /\ cmd_tag[1] = cmd_tag[2]
    /\ Displaced(1) /\ Closed(1) /\ rx[1] = "alive"
    /\ delivered[1] = << <<"Reply", StreamTag, 2>> >>
    /\ delivered[2] = << <<"Reply", StreamTag, 3>>, <<"Done", StreamTag, 4>> >>

\* The worker is suspended in the send to sink s: the packet it is routing
\* goes to s, whose receiver is alive and which holds SinkCapacity values.
Suspended(s) ==
    /\ pc = "drain" /\ packet_buf # <<>>
    /\ Head(packet_buf)[1] \in TaggedCats
    /\ Head(packet_buf)[2] \in DOMAIN running_commands
    /\ running_commands[Head(packet_buf)[2]] = s
    /\ rx[s] = "alive"
    /\ Undelivered(s) = 16

\* seq2 is seq1 with values appended.
Extends(seq2, seq1) ==
    Len(seq2) >= Len(seq1) /\ SubSeq(seq2, 1, Len(seq1)) = seq1

C19_Step ==
    \A s \in UserSinks :
        Suspended(s) =>
            /\ delivered' = delivered
            /\ packet_buf' = packet_buf /\ pc' = pc
            /\ Extends(wire', wire)
            /\ Extends(submit_q', submit_q)
            /\ running_commands' = running_commands
            /\ written' = written
            /\ Suspended(s)' \/ taken'[s] = taken[s] + 1 \/ rx'[s] = "dropped"

\* C19: a sink never holds more than 16 values; while the worker is in the
\* send to a sink that holds 16 and whose receiver is alive, no sink is
\* sent anything, nothing is read from the socket, no submit message is
\* taken and nothing is written, and only the receiver's taking a value or
\* its drop ends the suspension.
C19_BackPressure ==
    /\ [](\A s \in UserSinks : Undelivered(s) <= 16)
    /\ [][C19_Step]_vars

\* C19's case: the streaming command's sink holds 16 Replies, the worker is
\* in the send of the 17th, and a Done for the other pending command waits
\* at the socket.
C19_Witness ==
    /\ Suspended(1)
    /\ 2 \in Drained(running_commands) /\ cmd_tag[2] # cmd_tag[1]
    /\ delivered[2] = <<>> /\ rx[2] = "alive"
    /\ wire = << <<"Done", cmd_tag[2], 19>> >>

\* u <= v for two u32
Leq32(u, v) == u[1] < v[1] \/ (u[1] = v[1] /\ u[2] <= v[2])

\* The least prefix width that can hold l: w bytes hold 7w bits, 5 hold 32.
MinWidth(l) ==
    IF Leq32(l, <<0, 127>>) THEN 1
    ELSE IF Leq32(l, <<0, 16383>>) THEN 2
    ELSE IF Leq32(l, <<31, 65535>>) THEN 3
    ELSE IF Leq32(l, <<4095, 65535>>) THEN 4
    ELSE 5

\* C20: write_len emits the least width that can hold the length, and
\* read_length returns that length and that width for the bytes emitted.
C20_LenRoundTrip ==
    /\ cmd_buf # <<>> => Len(cmd_buf) = MinWidth(len)
    /\ ret # <<>> => ret = <<"Ok", len, Len(cmd_buf)>>

\* C20's case: 0xFFFFFFFF went out as F0 FF FF FF FF and came back as
\* itself with width 5.
C20_Witness ==
    /\ len = <<65535, 65535>>
    /\ cmd_buf = <<240, 255, 255, 255, 255>>
    /\ ret = <<"Ok", <<65535, 65535>>, 5>>

\* C21: on every non-empty byte string, decoding a length returns a length
\* and a width or an error value: no call of next() panics by reading past
\* the end of the data.
C21_NoPanic == \A i \in 1..Len(words) : words[i][1] # "Panic"

\* The sentences whose first word is no category word.
NoCategoryFirst ==
    {ws \in SeqsUpTo(WordSamples, MaxWords) : WordCategory(Head(ws))[1] = "Err"}

\* C29: the first next() of a Sentence whose first word is correctly
\* length-prefixed and is no category word returns an error.
C29_CategoryFirst ==
    words # <<>> /\ (\E ws \in NoCategoryFirst : data = Encoded(ws))
        => words[1][1] = "Some" /\ words[1][2][1] = "Err"

\* The words of a sentence of words shorter than 128 bytes: each follows
\* the byte that holds its length, up to the byte 0.
RECURSIVE WordsIn(_)
WordsIn(d) ==
    IF d = <<>> \/ d[1] = 0 THEN <<>>
    ELSE <<SubSeq(d, 2, d[1] + 1)>> \o WordsIn(From(d, d[1] + 1))

\* The words of the sentence in data: its category, then the others.
Sent == WordsIn(data)
Cat == (CHOOSE c \in CategoryWords : c[2] = Head(Sent))[1]
Rest == Tail(Sent)

\* What a word after the category says, by the way it was written.
IsTag(w) == \E n \in 0..9 : w = TagWord(n)
TagIn(w) == CHOOSE n \in 0..9 : w = TagWord(n)
Values == {<<97>>, <<98>>, <<118>>, <<55>>, <<56>>, <<120>>, <<255>>}
Keys == {MessageKey, CategoryKey, <<107>>, <<255>>}
IsAttr(w, key) == w = AttrFlag(key) \/ \E v \in Values : w = Attr(key, v)
HasValue(w, key) == \E v \in Values : w = Attr(key, v)
ValueIn(w, key) == CHOOSE v \in Values : w = Attr(key, v)
HasTag(ws) == \E i \in 1..Len(ws) : IsTag(ws[i])

\* C30: a Done, Reply or Trap sentence without tag word, and with nothing
\* else wrong, is rejected with Incomplete(MissingWord::Tag); and a !done
\* is accepted only with its tag right after the category.
C30_MissingTag ==
    ret # <<>> =>
        /\ (\/ Cat = "Done" /\ Rest = <<>>
            \/ /\ Cat = "Reply"
               /\ \A i \in 1..Len(Rest) : IsAttr(Rest[i], <<107>>)
            \/ /\ Cat = "Trap"
               /\ \A i \in 1..Len(Rest) : HasValue(Rest[i], MessageKey))
           => ret = <<"Err", "Incomplete", "Tag">>
        /\ Cat = "Done" /\ ret[1] = "Ok"
           => Rest # <<>> /\ IsTag(Rest[1]) /\ ret[2] = <<"Done", TagIn(Rest[1])>>

\* The last word of ws that is an attribute of this key.
LastOf(ws, key) ==
    ws[CHOOSE i \in 1..Len(ws) :
         IsAttr(ws[i], key) /\ \A j \in (i + 1)..Len(ws) : ~IsAttr(ws[j], key)]

\* C28: a !re whose attribute values are not all UTF-8 parses to a Reply
\* that holds the bytes of each value, unlike an attribute without value;
\* and an attribute whose key is no UTF-8 makes the parsing fail.
C28_ByteTransparent ==
    ret # <<>> /\ Cat = "Reply" =>
        /\ (\E i \in 1..Len(Rest) : IsAttr(Rest[i], <<255>>)) => ret[1] = "Err"
        /\ HasTag(Rest)
           /\ (\A i \in 1..Len(Rest) :
                 IsTag(Rest[i]) \/ \E k \in Keys \ {<<255>>} : IsAttr(Rest[i], k))
           => /\ ret[1] = "Ok"
              /\ ret[2][1] = "Reply"
              /\ \A k \in Keys :
                    (\E i \in 1..Len(Rest) : IsAttr(Rest[i], k))
                    /\ HasValue(LastOf(Rest, k), k)
                    => <<k, <<"Some", ValueIn(LastOf(Rest, k), k)>> >> \in ret[2][3]

\* A word the !trap arm takes: a tag, a message attribute, or a category
\* attribute that has no value or the value 7.
Taken(w) ==
    \/ IsTag(w)
    \/ IsAttr(w, MessageKey)
    \/ w \in {AttrFlag(CategoryKey), Attr(CategoryKey, <<55>>)}

\* The error the !trap arm returns with at a word it does not take.
Rejection(w) ==
    IF w = Attr(CategoryKey, <<56>>)
    THEN <<"Err", "TrapCategory", <<"OutOfRange", 8>> >>
    ELSE IF w = Attr(CategoryKey, <<120>>)
    THEN <<"Err", "TrapCategory", <<"Invalid">> >>
    ELSE IF IsAttr(w, <<107>>)
    THEN <<"Err", "TrapCategory",
           <<"InvalidAttribute", <<107>>,
             IF HasValue(w, <<107>>) /\ ValueIn(w, <<107>>) # <<255>>
             THEN <<"Some", ValueIn(w, <<107>>)>> ELSE <<"None">> >> >>
    ELSE IF IsAttr(w, <<255>>)
    THEN <<"Err", "Sentence", <<"WordError", "AttributeKeyNotUtf8">> >>
    ELSE <<"Err", "WordSequence", "Message", {"Tag", "Attribute"}>>

\* The words of ws in another order.
Reordered(ws) ==
    {[i \in 1..Len(ws) |-> ws[f[i]]] :
        f \in {g \in [1..Len(ws) -> 1..Len(ws)] :
                 \A i, j \in 1..Len(ws) : g[i] = g[j] => i = j}}

\* How many words of ws are tags, resp. attributes of the key.
CountTags(ws) == Cardinality({i \in 1..Len(ws) : IsTag(ws[i])})
CountAttrs(ws, key) == Cardinality({i \in 1..Len(ws) : IsAttr(ws[i], key)})

\* The parts of the claim about !trap that do not depend on the order.
TrapParts ==
    \* a Trap only with a tag word and a message attribute
    /\ ret[1] = "Ok"
       => /\ ret[2][1] = "Trap"
          /\ HasTag(Rest)
          /\ \E i \in 1..Len(Rest) : HasValue(Rest[i], MessageKey)
    \* no message attribute: the missing-message error
    /\ (\A i \in 1..Len(Rest) : Taken(Rest[i]))
       /\ HasTag(Rest) /\ CountAttrs(Rest, MessageKey) = 0
       => ret = <<"Err", "TrapCategory", <<"MissingMessageAttribute">> >>
    \* the first word that is not taken decides the error
    /\ \A i \in 1..Len(Rest) :
          ~Taken(Rest[i]) /\ (\A j \in 1..(i - 1) : Taken(Rest[j]))
          => ret = Rejection(Rest[i])

C22_Framing ==
    /\ nread = Len(Concat(stream)) => packets = stream /\ packet_bytes = <<>>
    /\ nread < Len(stream[1])
       => packets = <<>> /\ packet_bytes = SubSeq(stream[1], 1, nread)

\* C23: whatever the reads were, the packets handed over and the bytes
\* held back are those of a single read of all the bytes read so far.
C23_Chunking ==
    <<packets, packet_bytes>> = Drain(SubSeq(Concat(stream), 1, nread), <<>>)

\* C23's case: a read completed the first of two sentences and held the
\* first bytes of the second one back for the next read.
C23_Witness ==
    /\ Len(stream) = 2
    /\ packets = <<stream[1]>>
    /\ packet_bytes # <<>>
    /\ packet_bytes = SubSeq(stream[2], 1, nread - Len(stream[1]))

\* The word of a sentence of one word.
OneWord(s) ==
    CHOOSE B \in {SubSeq(s, k + 1, Len(s) - 1) : k \in 1..2} : Encoded(<<B>>) = s

\* C24: for the bytes B of a word, write_word(B) and the terminator, split
\* into packets and read by one next(), give the word that B is.
C24_WordRoundTrip ==
    words # <<>> /\ (\E B \in SplitWords : stream[1] = Encoded(<<B>>))
        => words[1] = <<"Some", Word(OneWord(stream[1]))>>

\* The strings a builder call was given.
Given(call) ==
    IF call[1] = "command" THEN {call[2]}
    ELSE IF call[1] = "attribute"
    THEN {call[2]} \cup (IF call[3][1] = "Some" THEN {call[3][2]} ELSE {})
    ELSE IF call[1] = "query"
    THEN {call[3]} \cup (IF call[2][3] THEN {call[4]} ELSE {})
    ELSE {}

AboveLatin1(str) == \E i \in 1..Len(str) : str[i] > 255

\* C25: a command, attribute or query_* call that is given a path, key or
\* value with a character above U+00FF returns Err(HasInvalidCharacter(ch))
\* for a character ch of that kind and writes no word.
C25_Rejects ==
    [][\A call \in {<<"command">>, <<"attribute">>, <<"query">>} :
          (/\ calls' # calls
           /\ calls'[Len(calls')][1] = call[1]
           /\ \E str \in Given(calls'[Len(calls')]) : AboveLatin1(str))
          => /\ Len(ret') = 3
             /\ ret'[1] = "Err" /\ ret'[2] = "HasInvalidCharacter"
             /\ ret'[3] > 255
             /\ cmd_buf' = cmd_buf]_vars

\* The word a call adds to a command: `=key=value`, `=key=`, `?name`,
\* `?-name`, `?name=value`, `?>name=value`, `?<name=value`, `?#` and the
\* operator codes; each character is one byte, its code point.
CallWord(call) ==
    IF call[1] = "attribute"
    THEN <<61>> \o call[2] \o <<61>>
         \o (IF call[3][1] = "Some" THEN call[3][2] ELSE <<>>)
    ELSE IF call[1] = "query"
    THEN (IF call[2][1] = "not_present" THEN <<63, 45>>
          ELSE IF call[2][1] = "gt" THEN <<63, 62>>
          ELSE IF call[2][1] = "lt" THEN <<63, 60>>
          ELSE <<63>>)
         \o call[3]
         \o (IF call[2][1] \in {"equal", "gt", "lt"} THEN <<61>> \o call[4] ELSE <<>>)
    ELSE <<63, 35>> \o call[2]

\* The words of the command that a sequence of calls on the builder with
\* the tag asks for, without the terminator.
WordsOf(tag, cs) ==
    LET tagword == <<46, 116, 97, 103, 61>> \o to_string(tag)
    IN  IF cs[1][1] = "login"
        THEN << <<47, 108, 111, 103, 105, 110>>, tagword,
                CallWord(<<"attribute", <<110, 97, 109, 101>>, <<"Some", cs[1][2]>>>>),
                CallWord(<<"attribute", <<112, 97, 115, 115, 119, 111, 114, 100>>, cs[1][3]>>) >>
        ELSE IF cs[1][1] = "cancel"
        THEN << <<47, 99, 97, 110, 99, 101, 108>>, tagword,
                <<61, 116, 97, 103, 61>> \o to_string(tag) >>
        ELSE <<cs[1][2], tagword>> \o [i \in 1..(Len(cs) - 1) |-> CallWord(cs[i + 1])]

\* C26: a built Command has the tag of its builder, and its data are the
\* path, `.tag=<decimal tag>`, the attribute and query words in call order
\* and one zero-length terminator; so for cancel and login.
C26_WordSequence ==
    bstate = "Built"
    => /\ ret[1] = "Command"
       /\ ret[2] = btag
       /\ WordsIn(ret[3]) = WordsOf(btag, calls)
       /\ ret[3] = Encoded(WordsOf(btag, calls))

\* The sentence `!empty .tag=<n>` is parsed as Empty with the tag n.
EmptyIsParsed ==
    \A n \in 0..9 :
        /\ Word(CategoryWord("Empty")) = <<"Ok", <<"Category", "Empty">> >>
        /\ try_from(Encoded(<<CategoryWord("Empty"), TagWord(n)>>))
              = <<"Ok", <<"Empty", n>> >>

C31_Step ==
    \A T \in DOMAIN running_commands : \A s \in Sinks :
        (Routes({"Empty"}, T) /\ s = running_commands[T]) =>
            /\ running_commands' = Remove(running_commands, T)
            /\ delivered' = [delivered EXCEPT ![s] =
                  IF rx[s] = "alive" THEN Append(@, Head(packet_buf)) ELSE @]
            /\ ~SenderAlive(s)'
            /\ UNCHANGED <<client, connect_ret, next_sink, cmd_tag, rx, submit_q,
                           shutdown, why, wire, sent, sock_rx, sock_tx, written,
                           taken>>

HandlesGone == client = "dropped" /\ ~command_channel_open /\ pc = "select"

\* C32: in src/src/actor.rs, once every handle has been dropped while
\* commands are pending, the worker keeps the connection open and takes the
\* sentences that are at the socket, to route them to the pending sinks,
\* and it ends once the pending table is empty.
C32_DrainsPending ==
    /\ (HandlesGone /\ ~shutdown /\ running_commands # EmptyMap
          /\ wire # <<>> /\ sock_rx = "open")
       => ENABLED LoopRead
    /\ (HandlesGone /\ running_commands = EmptyMap) => ENABLED LoopExit

C33_Step ==
    /\ Routes({"Fatal"}, 0) =>
          /\ FansOut(Head(packet_buf))
          /\ running_commands' = EmptyMap
          /\ shutdown'
    /\ (shutdown /\ submit_q # <<>>) => written' = written

\* C33: in src/src/actor.rs, when a Fatal sentence is routed every pending
\* sink receives the Fatal value and is closed and the shutdown flag is
\* set, and with the flag set no submit message is written to the socket.
C33_FatalEnds == [][C33_Step]_vars

\* The worker's read returns 0: it is at the select!, the submit channel has
\* nothing for it, the peer has closed and no sentence is left at the
\* socket.
LoopEofStep ==
    /\ pc = "select" /\ pc' = "select" /\ ~shutdown /\ shutdown'
    /\ ~RecvReady
    /\ sock_rx = "eof" /\ wire = <<>>

C34_Step ==
    LoopEofStep =>
        /\ \A s \in Drained(running_commands) :
              rx[s] = "alive" =>
                 /\ Len(delivered'[s]) = Len(delivered[s]) + 1
                 /\ Last(delivered'[s])[1] \in {"ErrIo", "ErrConnection"}
        /\ shutdown'

\* C34: in src/src/actor.rs, when a socket read returns 0 bytes every
\* pending sink is sent a connection-closed error before it is closed, and
\* the shutdown flag is set.
C34_EofNotifies == [][C34_Step]_vars

\* A turn of the scan for a tag word.
ScanStep == words' # words /\ ret' = ret /\ ret # <<>>

\* position < position'
Forward == position'[1] > position[1]
              \/ (position'[1] = position[1] /\ position'[2] > position[2])

\* C35: process_packet returns after finitely many steps on every packet
\* the splitter can hand over.  The position is all the state the scan for
\* a tag word has: a turn that neither ends the scan nor moves the position
\* forward is repeated for ever, so every turn ends the scan or moves on.
C35_Terminates == [][ScanStep => (ScanOver' \/ Forward)]_vars

\* The stream of sink s has ended for a caller that still holds it: every
\* sending end is gone.
StreamEnded(s) == rx[s] = "alive" /\ ~SenderAlive(s)

\* C36: the stream of every accepted command yields at least one value
\* before it ends: no sink that send_command handed out is closed with
\* nothing ever sent into it.
C36_NeverEmpty == \A s \in UserSinks : StreamEnded(s) => delivered[s] # <<>>

C37_Step ==
    \A T \in Tags :
        (Routes(TaggedCats, T) /\ T \notin DOMAIN running_commands) =>
            UNCHANGED <<running_commands, shutdown, delivered, written>>

\* C37: a Done, Reply, Trap or Empty sentence whose tag is not in the
\* pending table changes nothing in the engine: the step that routes it
\* leaves the table and the shutdown flag as they are, sends no value to any
\* sink and writes nothing to the socket.
C37_UnknownTag == [][C37_Step]_vars

\* C37's case: two sentences have been routed and a command is pending under
\* one tag while no command was ever written under the other tag; nothing
\* has reached a sink, the flag is not set and the log holds the login and
\* that one command.
C37_Witness ==
    /\ pc = "select" /\ ~shutdown
    /\ running_commands # EmptyMap
    /\ \E T \in Tags \ DOMAIN running_commands :
         /\ \A i \in 1..Len(written) : written[i][2] = T => written[i][1] = "login"
         /\ sent >= 3 /\ wire = <<>>
         /\ \A s \in UserSinks : delivered[s] = <<>>
         /\ Len(written) = 2

\* The worker is inside sender.send(..).await of process_packet, on sink s:
\* the sink is full and its receiver is alive.
WorkerBlockedOn(s) ==
    /\ pc = "drain"
    /\ Head(packet_buf)[1] \in TaggedCats
    /\ Head(packet_buf)[2] \in DOMAIN running_commands
    /\ running_commands[Head(packet_buf)[2]] = s
    /\ ~SendReady(s)

\* The task that owns the streams is inside send_command and the submit
\* channel is full.
CallerBlocked == client = "sending" /\ Len(submit_q) = SubmitCapacity

\* C38: the worker and the task that calls it never wait for each other on
\* their bounded channels: the worker is never inside a send to a full sink
\* whose receiver is alive while the task that owns that receiver is
\* inside send_command on the full submit channel.
C38_NoDeadlock ==
    \A s \in DOMAIN rx : ~(WorkerBlockedOn(s) /\ CallerBlocked)

C39_Step ==
    shutdown =>
        /\ delivered' = delivered
        /\ written' = written

\* C39: once the shutdown flag is set the worker routes no further
\* sentence: no step taken with the flag set sends a value to a sink or
\* writes a command or a /cancel to the socket.
C39_QuietAfterShutdown == [][C39_Step]_vars

\* The /cancel writes for tag T, in the write log.
CancelsOf(T) == {i \in DOMAIN written : written[i][1] = "cancel" /\ written[i][2] = T}

\* No tag was given to two commands.
TagsNotReused ==
    \A s1, s2 \in UserSinks : (s1 # s2 /\ cmd_tag[s1] # 0) => cmd_tag[s1] # cmd_tag[s2]

C40_AtMostOne == TagsNotReused => \A T \in Tags : Cardinality(CancelsOf(T)) <= 1

C40_Step ==
    \A T \in Tags :
        (Routes({"Reply"}, T) /\ T \in DOMAIN running_commands
            /\ rx[running_commands[T]] # "alive")
        => /\ T \notin DOMAIN running_commands'
           /\ Len(written') = Len(written) + 1
           /\ Last(written')[1] = "cancel" /\ Last(written')[2] = T

\* C40: for a pending command whose receiver was dropped, tags not being
\* reused, at most one /cancel for its tag is ever written: the step that
\* finds the delivery of a Reply failed removes the entry as it writes the
\* /cancel, so no later sentence for the tag finds an entry to cancel.
C40_OneCancel == []C40_AtMostOne /\ [][C40_Step]_vars

\* C40's case: the receiver of tag T's command was dropped, a Reply for T
\* has been answered with the one /cancel, and a further Reply, Trap or Done
\* for T is the next packet to route.
C40_Witness ==
    /\ TagsNotReused
    /\ pc = "drain"
    /\ \E T \in Tags :
         /\ Head(packet_buf)[1] \in {"Reply", "Trap", "Done"}
         /\ Head(packet_buf)[2] = T
         /\ Cardinality(CancelsOf(T)) = 1
         /\ \E s \in UserSinks : cmd_tag[s] = T /\ rx[s] = "dropped"
====
